---------------------------- MODULE Spec2Model ----------------------------
(***************************************************************************)
(* A model of the agent-to-agent (A2A) messaging core of agent-farm:       *)
(* shared/a2a.py.  The envelope (A2AMessage) and its (de)serialisation,    *)
(* the message server (A2AServer.receive_message, /info, /health) and the  *)
(* client (A2AClient.send_request, get_agent_info with its cache).         *)
(*                                                                         *)
(* Python values are modelled as follows.  A dict is a function whose      *)
(* domain is its set of keys.  A string is a string.  None (JSON null) is  *)
(* the value None below, which is in none of the input sets.  A member of  *)
(* the enum MessageType is its NAME ("REQUEST"), its value is the          *)
(* lowercase string ("request"): the two are different values, so the      *)
(* conversions of to_dict and from_dict are real conversions.              *)
(***************************************************************************)
EXTENDS Integers, Sequences, FiniteSets, TLC

VARIABLES
    listener,      \* endpoint -> what answers HTTP there now
    cache,         \* A2AClient._agent_cache: endpoint -> AgentInfo
    pc,            \* thread -> position inside the client call it runs
    call,          \* thread -> the client call in progress
    outcome,       \* thread -> how its last client call ended
    clock,         \* datetime.utcnow(), later at each reading; it also
                   \* seeds uuid4(), so that no two draws are equal
    lastExchange,  \* the last POST /message a server processed (history)
    failStreak,    \* server -> consecutive POSTs whose handler raised
    priorStreak,   \* failStreak of the server of lastExchange before it (history)
    firstInfo,     \* endpoint -> what the first successful get_agent_info
                   \* of it returned (history)
    calls,         \* operations started so far
    selfAgentInfo, \* self.agent_info of each server
    external,      \* how the agents' outside services behave at present
    boot,          \* the start of an agent process: its environment and how far it got
    readiness      \* a run of the readiness loop of the integration tests

vars == <<listener, cache, pc, call, outcome, clock, lastExchange,
          failStreak, priorStreak, firstInfo, calls, selfAgentInfo, external,
          boot, readiness>>

---------------------------------------------------------------------------
(* Bounds of the model *)

\* Operations started in one run of the whole system
MaxCalls == 2

\* POSTs in one run of a server alone
MaxPosts == 3

\* Requests sent in one run of the agents
MaxAgentCalls == 1

\* The largest max_retries given to wait_for_all_agents
MaxRetries == 2

---------------------------------------------------------------------------
(* Values *)

None == "<None>"

\* str(uuid.uuid4()): the n-th value drawn; all are different
Uuid(n) == "uuid-" \o ToString(n)

\* datetime.utcnow().isoformat()
IsoFormat(t) == "T" \o ToString(t)

\* class MessageType(Enum): the members, by name
MessageType == {"REQUEST", "RESPONSE", "ERROR"}

\* MessageType.<member>.value
MessageTypeValue(m) ==
    CASE m = "REQUEST" -> "request"
      [] m = "RESPONSE" -> "response"
      [] m = "ERROR" -> "error"

\* MessageType(value) succeeds
IsMessageTypeValue(v) == \E m \in MessageType : MessageTypeValue(m) = v

\* MessageType(value): the member with that value (enum lookup by value)
MessageTypeOf(v) == CHOOSE m \in MessageType : MessageTypeValue(m) = v

\* The dataclass fields of A2AMessage: those without and with a default
RequiredFields == {"message_id", "from_agent", "to_agent", "message_type", "payload"}
OptionalFields == {"timestamp", "reply_to"}
MessageFields == RequiredFields \cup OptionalFields

\* A mutant of A2AMessage whose __post_init__ stamps every instance anew
A2AMessage_restamps(message_id, from_agent, to_agent, message_type, payload, timestamp, reply_to, now) ==
    [message_id |-> message_id,
     from_agent |-> from_agent,
     to_agent |-> to_agent,
     message_type |-> message_type,
     payload |-> payload,
     timestamp |-> IsoFormat(now),
     reply_to |-> reply_to]

\* A2AMessage(...) followed by __post_init__: timestamp defaults to now
A2AMessage(message_id, from_agent, to_agent, message_type, payload, timestamp, reply_to, now) ==
    [message_id |-> message_id,
     from_agent |-> from_agent,
     to_agent |-> to_agent,
     message_type |-> message_type,
     payload |-> payload,
     timestamp |-> IF timestamp = None THEN IsoFormat(now) ELSE timestamp,
     reply_to |-> reply_to]

\* A mutant of to_dict that leaves the enum member in place
to_dict_keeps_enum(msg) == msg

\* A2AMessage.to_dict: asdict, then the kind as its string value
to_dict(msg) == [msg EXCEPT !.message_type = MessageTypeValue(msg.message_type)]

\* The outcome of a call: a value, or an exception with its str()
Returned(v) == [ok |-> TRUE, value |-> v]
Raised(exc, text) == [ok |-> FALSE, exc |-> exc, text |-> text]

\* The positional parameters of the two dataclasses, in declaration order
A2AMessagePositional == <<"message_id", "from_agent", "to_agent", "message_type", "payload">>
AgentInfoPositional == <<"agent_id", "name", "description", "endpoint", "capabilities",
                         "framework", "model_provider">>

\* Names as Python lists them in a TypeError: 'a' / 'a' and 'b' /
\* 'a', 'b', and 'c'
RECURSIVE CommaQuoted(_)
CommaQuoted(names) ==
    IF names = <<>> THEN ""
    ELSE "'" \o Head(names) \o "', " \o CommaQuoted(Tail(names))

NameList(names) ==
    IF Len(names) = 1 THEN "'" \o names[1] \o "'"
    ELSE IF Len(names) = 2 THEN "'" \o names[1] \o "' and '" \o names[2] \o "'"
    ELSE CommaQuoted(SubSeq(names, 1, Len(names) - 1))
         \o "and '" \o names[Len(names)] \o "'"

\* The TypeError of cls(**data): an unexpected key is reported first, then
\* the missing positional arguments, counted and named in declaration order
InitTypeError(keys, fields, required, cls) ==
    IF keys \ fields # {}
    THEN Raised("TypeError", cls \o ".__init__() got an unexpected keyword argument '"
                             \o (CHOOSE k \in keys \ fields : TRUE) \o "'")
    ELSE LET missing == SelectSeq(required, LAMBDA k : k \notin keys)
         IN  Raised("TypeError", cls \o ".__init__() missing "
                                 \o ToString(Len(missing))
                                 \o " required positional argument"
                                 \o (IF Len(missing) = 1 THEN "" ELSE "s")
                                 \o ": " \o NameList(missing))

\* A mutant of from_dict that takes an unrecognized kind for a request
from_dict_defaulting(data, now) ==
    IF "message_type" \notin DOMAIN data
    THEN Raised("KeyError", "'message_type'")
    ELSE IF DOMAIN data \ MessageFields # {} \/ RequiredFields \ DOMAIN data # {}
    THEN InitTypeError(DOMAIN data, MessageFields, A2AMessagePositional, "A2AMessage")
    ELSE Returned(A2AMessage(
            data["message_id"], data["from_agent"], data["to_agent"],
            IF IsMessageTypeValue(data["message_type"])
            THEN MessageTypeOf(data["message_type"]) ELSE "REQUEST",
            data["payload"],
            IF "timestamp" \in DOMAIN data THEN data["timestamp"] ELSE None,
            IF "reply_to" \in DOMAIN data THEN data["reply_to"] ELSE None,
            now))

\* A2AMessage.from_dict: data["message_type"] (KeyError), MessageType(...)
\* (ValueError), cls(**data) (TypeError), then __post_init__
from_dict(data, now) ==
    IF "message_type" \notin DOMAIN data
    THEN Raised("KeyError", "'message_type'")
    ELSE IF ~IsMessageTypeValue(data["message_type"])
    THEN Raised("ValueError", "'" \o data["message_type"] \o "' is not a valid MessageType")
    ELSE IF DOMAIN data \ MessageFields # {} \/ RequiredFields \ DOMAIN data # {}
    THEN InitTypeError(DOMAIN data, MessageFields, A2AMessagePositional, "A2AMessage")
    ELSE Returned(A2AMessage(
            data["message_id"], data["from_agent"], data["to_agent"],
            MessageTypeOf(data["message_type"]), data["payload"],
            IF "timestamp" \in DOMAIN data THEN data["timestamp"] ELSE None,
            IF "reply_to" \in DOMAIN data THEN data["reply_to"] ELSE None,
            now))

---------------------------------------------------------------------------
(* Discovery types *)

\* AgentCapability(...): a dataclass instance.  cls tells the instance from
\* the plain dict that asdict() and JSON make of it.
AgentCapability(name, description, input_schema, output_schema) ==
    [cls |-> "AgentCapability", name |-> name, description |-> description,
     input_schema |-> input_schema, output_schema |-> output_schema]

\* asdict() of an AgentCapability: its fields as a plain dict
CapabilityAsDict(c) == [k \in DOMAIN c \ {"cls"} |-> c[k]]

AgentInfoRequired == {"agent_id", "name", "description", "endpoint", "capabilities",
                      "framework", "model_provider"}
AgentInfoFields == AgentInfoRequired \cup {"status"}

\* The default of AgentInfo.status
DefaultStatus == "active"

\* AgentInfo(...)
AgentInfo(agent_id, name, description, endpoint, capabilities, framework, model_provider, status) ==
    [agent_id |-> agent_id, name |-> name, description |-> description,
     endpoint |-> endpoint, capabilities |-> capabilities, framework |-> framework,
     model_provider |-> model_provider, status |-> status]

\* AgentInfo.to_dict: asdict recurses into the list of capabilities
AgentInfo_to_dict(info) ==
    [info EXCEPT !.capabilities =
        [i \in DOMAIN info.capabilities |-> CapabilityAsDict(info.capabilities[i])]]

\* AgentInfo(**response.json()): the values are stored as they come
AgentInfo_from_json(data) ==
    IF DOMAIN data \ AgentInfoFields # {} \/ AgentInfoRequired \ DOMAIN data # {}
    THEN InitTypeError(DOMAIN data, AgentInfoFields, AgentInfoPositional, "AgentInfo")
    ELSE Returned(AgentInfo(
            data["agent_id"], data["name"], data["description"], data["endpoint"],
            data["capabilities"], data["framework"], data["model_provider"],
            IF "status" \in DOMAIN data THEN data["status"] ELSE DefaultStatus))

---------------------------------------------------------------------------
(* The inputs: servers with their descriptors and handlers, endpoints,     *)
(* payloads, raw request bodies, and what a foreign HTTP service answers   *)

Servers == {"s1", "s2"}
Endpoints == {"http://a", "http://b"}
Threads == {"t1", "t2"}

\* What may answer at an endpoint: one of the A2A servers, some other HTTP
\* service, or nothing
Foreign == "foreign"
NoListener == "none"

\* dict.get(key)
Get(d, k) == IF k \in DOMAIN d THEN d[k] ELSE None

\* dict.get(key, default)
GetOr(d, k, default) == IF k \in DOMAIN d THEN d[k] ELSE default

\* A mutant of the emptiness test that only catches a missing value
FalsyOnlyNone(v) == v = None

\* `not v` for the values a payload field takes here
Falsy(v) == v \in {"", None}

\* str(v) inside an f-string
Str(v) == IF v = None THEN "None" ELSE v

---------------------------------------------------------------------------
(* The four agents *)

Agents == {"langgraph-translator", "crewai-weather", "adk-wikipedia", "simple-extractor"}

\* Everything that may listen as an A2A server
Hosts == Servers \cup Agents

\* The action each handle_a2a_message compares payload["action"] with
SupportedAction(a) ==
    CASE a = "langgraph-translator" -> "translate"
      [] a = "crewai-weather" -> "get_weather"
      [] a = "adk-wikipedia" -> "search"
      [] a = "simple-extractor" -> "extract"

\* The payload field the supported action needs
RequiredField(a) ==
    CASE a = "langgraph-translator" -> "text"
      [] a = "crewai-weather" -> "location"
      [] a = "adk-wikipedia" -> "topic"
      [] a = "simple-extractor" -> "text"

\* framework= of the descriptor and of the success payloads
FrameworkTag(a) ==
    CASE a = "langgraph-translator" -> "langgraph"
      [] a = "crewai-weather" -> "crewai"
      [] a = "adk-wikipedia" -> "adk"
      [] a = "simple-extractor" -> "none"

\* name= of the descriptor
AgentName(a) ==
    CASE a = "langgraph-translator" -> "LangGraph Translator"
      [] a = "crewai-weather" -> "CrewAI Weather"
      [] a = "adk-wikipedia" -> "ADK Wikipedia"
      [] a = "simple-extractor" -> "Data Extractor"

\* self.provider and self.model_name, as configured for the run
Provider(a) == "openai"
ModelName(a) == "gpt-4o-mini"

\* description= of the descriptor, an f-string over agent.provider
DescriptionUsing(a, provider) ==
    CASE a = "langgraph-translator" -> "Translation using " \o Str(provider)
      [] a = "crewai-weather" ->
            "Real-time weather using OpenWeatherMap API with " \o Str(provider)
      [] a = "adk-wikipedia" -> "Wikipedia search using ADK with " \o Str(provider)
      [] a = "simple-extractor" -> "Data extraction using " \o Str(provider)

\* ... as configured for the run
AgentDescription(a) == DescriptionUsing(a, Provider(a))

\* capabilities= of the descriptor: one capability each
AgentCapabilityOf(a) ==
    CASE a = "langgraph-translator" ->
            AgentCapability("translate", "Translate text",
                            [text |-> "string", target_language |-> "string"],
                            [translated_text |-> "string"])
      [] a = "crewai-weather" ->
            AgentCapability("get_weather", "Get current weather for a location",
                            [location |-> "string"],
                            [weather_info |-> "string", temperature |-> "number",
                             humidity |-> "number", data_source |-> "string"])
      [] a = "adk-wikipedia" ->
            AgentCapability("search", "Search Wikipedia", [topic |-> "string"],
                            [summary |-> "string", source |-> "string"])
      [] a = "simple-extractor" ->
            AgentCapability("extract", "Extract structured data", [text |-> "string"],
                            [people |-> "array", locations |-> "array",
                             dates |-> "array", amounts |-> "array",
                             key_facts |-> "array"])

\* How the outside services behave: they answer, they answer with a failure
\* of their own (no such place, no such article), the call to them raises,
\* or the model answers with JSON that is not of the shape asked for
ExternalOutcomes == {"ok", "unavailable", "raises", "offschema"}

\* A handler's outcome, with whether it called its collaborator on the way
Calling(outcome_, invoked) == [invoked |-> invoked] @@ outcome_

\* LangGraphTranslator.translate: the graph's single node asks the LLM
translate(text, target_language, ext) ==
    IF ext \in {"ok", "offschema"} THEN Returned("<" \o text \o " in " \o target_language \o ">")
    ELSE Raised("Exception", "LLM call failed")

\* CrewAIWeather.get_weather: OpenWeatherMap first, whose failures come back
\* as an error mapping, then the crew, whose failure raises
get_weather(location, ext) ==
    IF ext = "unavailable"
    THEN Returned([error |-> "Location '" \o location \o "' not found",
                   location |-> location])
    ELSE IF ext = "raises" THEN Raised("Exception", "LLM call failed")
    ELSE Returned([text |-> "Sunny in " \o location,
                   raw_data |-> [temp |-> 20, feels_like |-> 19,
                                 description |-> "clear sky", humidity |-> 40,
                                 wind_speed |-> 3, pressure |-> 1013]])

\* ADKWikipedia.search: every failure is turned into a summary
search(topic, ext) ==
    IF ext = "unavailable"
    THEN [topic |-> topic, summary |-> "No article found for: " \o topic,
          source |-> "Wikipedia"]
    ELSE IF ext = "raises"
    THEN [topic |-> topic, summary |-> "Error: LLM call failed", source |-> None]
    ELSE [topic |-> topic, summary |-> "About " \o topic,
          source |-> "Wikipedia via ADK"]

\* A JSON value as json.loads builds it, with the Python type it has
JsonList(items) == [type |-> "list", items |-> items]
JsonStr(s) == [type |-> "str", items |-> <<s>>]
JsonNull == [type |-> "NoneType", items |-> <<>>]

\* dict.update: the keys of other are added or overwritten
update(d, other) ==
    [k \in DOMAIN d \cup DOMAIN other |-> IF k \in DOMAIN other THEN other[k] ELSE d[k]]

\* json.loads of what the model answered
ModelJson(text, ext) ==
    IF ext = "ok" THEN Returned([key_facts |-> JsonList(<<text>>)])
    ELSE IF ext = "offschema"
    THEN Returned([people |-> JsonStr("John Smith"), locations |-> JsonNull,
                   summary |-> JsonStr(text)])
    ELSE Raised("Exception", "LLM call failed")

\* The keys DataExtractor.extract always fills
ExtractedKeys == {"people", "locations", "dates", "amounts", "key_facts"}

\* DataExtractor.extract: the defaults updated with the model's JSON, or the
\* defaults with an error key
extract(text, ext) ==
    LET default == [k \in ExtractedKeys |-> JsonList(<<>>)]
        result == ModelJson(text, ext)
    IN  IF result.ok THEN update(default, result.value)
        ELSE default @@ [error |-> JsonStr(result.text)]

\* A mutant of the last return that raises instead
UnknownActionRaises(a, action) ==
    Raised("ValueError", "Unknown action: " \o Str(action))

\* The last return of each handle_a2a_message
UnknownAction(a, action) ==
    IF a \in {"langgraph-translator", "adk-wikipedia"}
    THEN Returned([status |-> "error", message |-> "Unknown action: " \o Str(action)])
    ELSE Returned([status |-> "error", message |-> "Unknown action"])

\* The return for an empty or missing input
NoInput(a) ==
    CASE a = "langgraph-translator" -> Returned([status |-> "error", message |-> "No text"])
      [] a = "crewai-weather" ->
            Returned([status |-> "error", message |-> "No location provided"])
      [] a = "adk-wikipedia" -> Returned([status |-> "error", message |-> "No topic"])
      [] a = "simple-extractor" -> Returned([status |-> "error", message |-> "No text"])

\* A mutant of the metadata that leaves the model out
MetadataNoModel(a) ==
    [framework |-> FrameworkTag(a), provider |-> Provider(a)]

\* The three keys every success payload ends with: the agent's own framework
\* literal, self.provider, self.model_name
Metadata(a) ==
    [framework |-> CASE a = "langgraph-translator" -> "langgraph"
                     [] a = "crewai-weather" -> "crewai"
                     [] a = "adk-wikipedia" -> "adk"
                     [] a = "simple-extractor" -> "none",
     provider |-> Provider(a), model |-> ModelName(a)]

\* The supported action on a non-empty input: the collaborator is called
Perform(a, payload, input, ext) ==
    LET meta == Metadata(a)
    IN  CASE a = "langgraph-translator" ->
                LET target_language == GetOr(payload, "target_language", "English")
                    translated == translate(input, target_language, ext)
                IN  IF translated.ok
                    THEN Returned([status |-> "success",
                                   translated_text |-> translated.value,
                                   target_language |-> target_language] @@ meta)
                    ELSE translated
          [] a = "crewai-weather" ->
                LET weather_result == get_weather(input, ext)
                IN  IF ~weather_result.ok
                    THEN Returned([status |-> "error",
                                   message |-> "Failed to get weather: "
                                               \o weather_result.text])
                    ELSE IF "error" \in DOMAIN weather_result.value
                    THEN Returned([status |-> "error",
                                   message |-> weather_result.value.error,
                                   location |-> input])
                    ELSE LET raw_data == weather_result.value.raw_data
                         IN  Returned([status |-> "success",
                                       weather_info |-> weather_result.value.text,
                                       location |-> input,
                                       temperature |-> raw_data.temp,
                                       feels_like |-> raw_data.feels_like,
                                       description |-> raw_data.description,
                                       humidity |-> raw_data.humidity,
                                       wind_speed |-> raw_data.wind_speed,
                                       data_source |-> "openweathermap"] @@ meta)
          [] a = "adk-wikipedia" ->
                Returned([status |-> "success"] @@ meta
                         @@ search(input, ext))
          [] a = "simple-extractor" ->
                Returned([status |-> "success",
                          extracted_data |-> extract(input, ext)] @@ meta)

\* handle_a2a_message of agent a, its outside services behaving as ext
handle_a2a_message(a, message, ext) ==
    LET payload == message.payload
        action == Get(payload, "action")
        input == GetOr(payload, RequiredField(a), "")
    IN  IF action # SupportedAction(a)
        THEN Calling(UnknownAction(a, action), FALSE)
        ELSE IF Falsy(input)
        THEN Calling(NoInput(a), FALSE)
        ELSE Calling(Perform(a, payload, input, ext), TRUE)

---------------------------------------------------------------------------
(* The servers of the core's own scenarios *)

CapTranslate ==
    AgentCapability("translate", "Translate text", [type |-> "object"], [type |-> "object"])
CapDetect ==
    AgentCapability("detect", "Detect language", [type |-> "object"], [type |-> "string"])

\* The AgentInfo that main() of agent a builds from the agent object:
\* endpoint and model_provider are the object's, whatever they are
main_agent_info(a, agent) ==
    AgentInfo(a, AgentName(a), DescriptionUsing(a, agent.provider), agent.endpoint,
              <<AgentCapabilityOf(a)>>, FrameworkTag(a), agent.provider,
              DefaultStatus)

\* A2AServer.agent_info, as given to the constructor: by main() for the four
\* agents
agent_info(s) ==
    IF s = "s1"
    THEN AgentInfo("agentA", "Agent A", "first agent", "http://a",
                   <<CapTranslate, CapDetect>>, "langgraph", "openai", DefaultStatus)
    ELSE IF s = "s2"
    THEN AgentInfo("agentB", "Agent B", "second agent", "http://a",
                   <<CapDetect>>, "none", "gemini", "busy")
    ELSE main_agent_info(s, [provider |-> Provider(s), endpoint |-> "http://a"])

\* A2AServer.message_handler, as given to the constructor: a function of the
\* decoded envelope that returns a mapping or raises.  s1 echoes, rejects
\* unknown actions in its result and raises on action "fail"; s2 raises
\* unless the action is "echo"; an agent's is its handle_a2a_message.
message_handler(s, message) ==
    LET action == Get(message.payload, "action")
    IN  IF s \in Agents
        THEN handle_a2a_message(s, message, external)
        ELSE IF action = "echo"
        THEN Returned([status |-> "success", text |-> Get(message.payload, "text")])
        ELSE IF action = "fail" \/ s = "s2"
        THEN Raised("RuntimeError", "handler failed")
        ELSE Returned([status |-> "error", message |-> "Unknown action"])

Payloads ==
    {[action |-> "echo", text |-> "hi"], [action |-> "fail"], [action |-> "noop"]}

AgentIds == {"agentA"}

\* A2AClient.agent_id
ClientId == "client"

\* A well-formed request body as some caller other than A2AClient sends it
RawBase(p) ==
    [message_id |-> "m1", from_agent |-> "peer", to_agent |-> "agentA",
     message_type |-> "request", payload |-> p, timestamp |-> "T0", reply_to |-> None]

\* d without the keys ks
Without(d, ks) == [k \in DOMAIN d \ ks |-> d[k]]

\* The bodies POSTed to /message by other callers: well-formed ones, of each
\* kind, and ones with a field corrupted, missing or unexpected
RawBodies ==
    {RawBase([action |-> "echo", text |-> "hi"]), RawBase([action |-> "fail"]),
     Without(RawBase([action |-> "noop"]), OptionalFields)}
    \cup {[RawBase([action |-> "echo", text |-> "hi"]) EXCEPT
              !.message_type = k, !.reply_to = "m0", !.to_agent = "other"] :
          k \in {"response", "error"}}
    \cup {[RawBase([action |-> "echo", text |-> "hi"]) EXCEPT !.message_type = k] :
          k \in {"bogus", "REQUEST"}}
    \cup {Without(RawBase([action |-> "echo", text |-> "hi"]), {k}) : k \in RequiredFields}
    \cup {RawBase([action |-> "noop"]) @@ [extra |-> "x"]}
    \cup {[from_agent |-> "peer"]}

\* An envelope as a foreign service may put it in a reply body
ForeignEnvelope(kind, reply_to) ==
    [message_id |-> "f1", from_agent |-> "foreign", to_agent |-> ClientId,
     message_type |-> kind, payload |-> [error |-> "denied"],
     timestamp |-> "T0", reply_to |-> reply_to]

\* What a foreign service may answer to POST /message
ForeignMessageResponses ==
    {[status |-> 200, body |-> ForeignEnvelope("error", "m0")],
     [status |-> 200, body |-> ForeignEnvelope("response", "m0")],
     [status |-> 200, body |-> ForeignEnvelope("request", None)],
     [status |-> 200, body |-> [result |-> "ok"]],
     [status |-> 200, body |-> ForeignEnvelope("reply", "m0")],
     [status |-> 300, body |-> ForeignEnvelope("response", "m0")],
     [status |-> 500, body |-> ForeignEnvelope("error", "m0")]}

ForeignInfo ==
    [agent_id |-> "agentF", name |-> "Agent F", description |-> "foreign",
     endpoint |-> "http://b", capabilities |-> <<CapabilityAsDict(CapDetect)>>,
     framework |-> "adk", model_provider |-> "anthropic"]

\* What a foreign service may answer to GET /info
ForeignInfoResponses ==
    {[status |-> 200, body |-> ForeignInfo],
     [status |-> 200, body |-> Without(ForeignInfo, {"framework"})],
     [status |-> 200, body |-> ForeignInfo @@ [version |-> "2"]],
     [status |-> 503, body |-> [detail |-> "Service Unavailable"]]}

---------------------------------------------------------------------------
(* The message server *)

\* What FastAPI makes of: raise HTTPException(status_code, detail)
HTTPException(status_code, detail) == [status |-> status_code, body |-> [detail |-> detail]]

\* What FastAPI makes of a route that returns a dict
JSONResponse(content) == [status |-> 200, body |-> content]

\* A mutant of ResponseMessage that signs the reply with the to_agent the
\* request named
ResponseMessageFromAddressee(s, message, result, uuid, now) ==
    A2AMessage(uuid, message.to_agent, message.from_agent, "RESPONSE",
               result, None, message.message_id, now)

\* A mutant of ResponseMessage that addresses the reply to the request's
\* to_agent
ResponseMessageToRecipient(s, message, result, uuid, now) ==
    A2AMessage(uuid, selfAgentInfo[s].agent_id, message.to_agent, "RESPONSE",
               result, None, message.message_id, now)

\* A mutant of ResponseMessage that leaves reply_to out
ResponseMessageNoReply(s, message, result, uuid, now) ==
    A2AMessage(uuid, selfAgentInfo[s].agent_id, message.from_agent, "RESPONSE",
               result, None, None, now)

\* The envelope built when the handler returned result
ResponseMessage(s, message, result, uuid, now) ==
    A2AMessage(uuid, selfAgentInfo[s].agent_id, message.from_agent, "RESPONSE",
               result, None, message.message_id, now)

\* A mutant of ErrorMessage that reads the ids out of the raw body when the
\* body did not decode
ErrorMessageFromBody(s, data, decoded, text, uuid, now) ==
    A2AMessage(uuid, selfAgentInfo[s].agent_id,
               IF decoded.ok THEN decoded.value.from_agent
               ELSE IF "from_agent" \in DOMAIN data THEN data["from_agent"] ELSE "unknown",
               "ERROR", [error |-> text], None,
               IF decoded.ok THEN decoded.value.message_id
               ELSE IF "message_id" \in DOMAIN data THEN data["message_id"] ELSE None,
               now)

\* A mutant of the except clause that also ships the traceback
ErrorMessageWithTrace(s, data, decoded, text, uuid, now) ==
    A2AMessage(uuid, selfAgentInfo[s].agent_id,
               IF decoded.ok THEN decoded.value.from_agent ELSE "unknown",
               "ERROR", [error |-> text, traceback |-> "Traceback (most recent call last)"],
               None,
               IF decoded.ok THEN decoded.value.message_id ELSE None,
               now)

\* The envelope built in the except clause: `message` is a local only if
\* from_dict returned
ErrorMessage(s, data, decoded, text, uuid, now) ==
    A2AMessage(uuid, selfAgentInfo[s].agent_id,
               IF decoded.ok THEN decoded.value.from_agent ELSE "unknown",
               "ERROR", [error |-> text], None,
               IF decoded.ok THEN decoded.value.message_id ELSE None,
               now)

\* A mutant of receive_message that answers a failure with the bare envelope
\* and status 200
receive_message_flat(s, data, uuid, now) ==
    LET decoded == from_dict(data, now)
        handled == decoded.ok
        result == IF handled THEN message_handler(s, decoded.value) ELSE decoded
        emitted == IF result.ok
                   THEN ResponseMessage(s, decoded.value, result.value, uuid, now)
                   ELSE ErrorMessage(s, data, decoded, result.text, uuid, now)
    IN  [server |-> s, data |-> data, decoded |-> decoded, handled |-> handled,
         invoked |-> IF handled THEN <<decoded.value>> ELSE <<>>,
         result |-> result, emitted |-> emitted,
         http |-> JSONResponse(to_dict(emitted))]

\* A mutant of receive_message that calls the handler again after it raised
receive_message_retries(s, data, uuid, now) ==
    LET decoded == from_dict(data, now)
        handled == decoded.ok
        first == IF handled THEN message_handler(s, decoded.value) ELSE decoded
        result == IF handled /\ ~first.ok
                  THEN message_handler(s, decoded.value) ELSE first
        emitted == IF result.ok
                   THEN ResponseMessage(s, decoded.value, result.value, uuid, now)
                   ELSE ErrorMessage(s, data, decoded, result.text, uuid, now)
    IN  [server |-> s, data |-> data, decoded |-> decoded, handled |-> handled,
         invoked |-> IF ~handled THEN <<>>
                     ELSE IF first.ok THEN <<decoded.value>>
                     ELSE <<decoded.value, decoded.value>>,
         result |-> result, emitted |-> emitted,
         http |-> IF result.ok
                  THEN JSONResponse(to_dict(emitted))
                  ELSE HTTPException(500, to_dict(emitted))]

\* POST /message: decode, call the handler, wrap its result; any exception
\* of the two becomes an error envelope inside an HTTP 500.  The record
\* holds the HTTP answer (http) and, for the properties, what led to it:
\* invoked lists the arguments of the calls made to the handler.
receive_message(s, data, uuid, now) ==
    LET decoded == from_dict(data, now)
        handled == decoded.ok
        result == IF handled THEN message_handler(s, decoded.value) ELSE decoded
        emitted == IF result.ok
                   THEN ResponseMessage(s, decoded.value, result.value, uuid, now)
                   ELSE ErrorMessage(s, data, decoded, result.text, uuid, now)
    IN  [server |-> s, data |-> data, decoded |-> decoded, handled |-> handled,
         invoked |-> IF handled THEN <<decoded.value>> ELSE <<>>,
         result |-> result, emitted |-> emitted,
         http |-> IF result.ok
                  THEN JSONResponse(to_dict(emitted))
                  ELSE HTTPException(500, to_dict(emitted))]

\* GET /info
info(s) == JSONResponse(AgentInfo_to_dict(selfAgentInfo[s]))

\* GET /health
health(s) == JSONResponse([status |-> "healthy", agent |-> selfAgentInfo[s].agent_id])

\* A mutant of receive_message that marks the descriptor after a failure
AgentInfoAfterMarksError(descriptor, ex) ==
    IF ex.result.ok THEN descriptor ELSE [descriptor EXCEPT !.status = "error"]

\* self.agent_info after receive_message: the route assigns nothing to self
AgentInfoAfter(descriptor, ex) == descriptor

\* The streak of handler failures of a server after one more exchange
StreakAfter(n, ex) == IF ex.handled /\ ~ex.result.ok THEN n + 1 ELSE 0

---------------------------------------------------------------------------
(* The client *)

\* A mutant of raise_for_status that lets every status through
raise_for_status_never(status) == FALSE

\* requests.Response.raise_for_status raises HTTPError for 4xx and 5xx
raise_for_status(status) == 400 <= status /\ status < 600

\* A mutant of send_request_result that returns the whole reply
send_request_result_envelope(response, now) ==
    IF raise_for_status(response.status)
    THEN Raised("HTTPError", ToString(response.status))
    ELSE LET response_message == from_dict(response.body, now)
         IN  IF response_message.ok
             THEN Returned(to_dict(response_message.value))
             ELSE response_message

\* A mutant of send_request_result that digs the error envelope out of a
\* failed HTTP answer
send_request_result_unwraps(response, now) ==
    LET body == IF raise_for_status(response.status) /\ "detail" \in DOMAIN response.body
                THEN response.body["detail"] ELSE response.body
        response_message == from_dict(body, now)
    IN  IF response_message.ok
        THEN Returned(response_message.value.payload)
        ELSE response_message

\* A mutant of send_request_result that accepts a reply only if it is of
\* kind response or error and names a request
send_request_result_correlated(response, now) ==
    IF raise_for_status(response.status)
    THEN Raised("HTTPError", ToString(response.status))
    ELSE LET response_message == from_dict(response.body, now)
         IN  IF ~response_message.ok THEN response_message
             ELSE IF response_message.value.message_type = "REQUEST"
                     \/ response_message.value.reply_to = None
             THEN Raised("ValueError", "not a reply")
             ELSE Returned(response_message.value.payload)

\* send_request after the network call returned response: raise_for_status,
\* decode the body, return the payload of the envelope
send_request_result(response, now) ==
    IF raise_for_status(response.status)
    THEN Raised("HTTPError", ToString(response.status))
    ELSE LET response_message == from_dict(response.body, now)
         IN  IF response_message.ok
             THEN Returned(response_message.value.payload)
             ELSE response_message

\* get_agent_info after the network call returned response
get_agent_info_result(response) ==
    IF raise_for_status(response.status)
    THEN Raised("HTTPError", ToString(response.status))
    ELSE AgentInfo_from_json(response.body)

NoResponse == [status |-> 0]
NoCall == [op |-> None]
NoExchange == [server |-> None]

---------------------------------------------------------------------------
(* Configuration and startup of the agents *)

\* The keys of an agent's configuration
Settings == {"provider", "model", "temperature", "port", "endpoint", "api_key_env"}

\* required_vars of config_loader: the environment variable of each key
EnvVarOf(k) ==
    CASE k = "provider" -> "PROVIDER"
      [] k = "model" -> "MODEL"
      [] k = "temperature" -> "TEMPERATURE"
      [] k = "port" -> "PORT"
      [] k = "endpoint" -> "ENDPOINT"
      [] k = "api_key_env" -> "API_KEY_ENV"
RequiredVars == {EnvVarOf(k) : k \in Settings}

\* A value for each variable when it is set and well-formed
GoodValue(var) ==
    CASE var = "PROVIDER" -> "openai"
      [] var = "MODEL" -> "gpt-4o-mini"
      [] var = "TEMPERATURE" -> "0.7"
      [] var = "PORT" -> "8080"
      [] var = "ENDPOINT" -> "http://a"
      [] var = "API_KEY_ENV" -> "OPENAI_API_KEY"

GoodVars == [var \in RequiredVars |-> GoodValue(var)]

\* The six variables as a deployment may set them: all, none, all empty,
\* all but one that is unset or empty, or all with a temperature or a port
\* that is not a number.  None stands for a variable that is unset
\* (os.getenv(var) is None), "" for one that is set to the empty string.
EnvVarChoices ==
    {GoodVars, [var \in RequiredVars |-> None], [var \in RequiredVars |-> ""],
     [GoodVars EXCEPT !["TEMPERATURE"] = "hot"], [GoodVars EXCEPT !["PORT"] = "http"]}
    \cup {[GoodVars EXCEPT ![var] = v] : var \in RequiredVars, v \in {None, ""}}

\* The entry of the agent in agents_config.yaml, with the keys it has; the
\* file sets another temperature than the environment does
YamlEntry(keys) ==
    [k \in keys |-> CASE k = "temperature" -> "0.2f"
                      [] k = "port" -> "8080i"
                      [] OTHER -> GoodValue(EnvVarOf(k))]

\* The environments an agent process may start in: agent_name is the argument
\* given to load_agent_config, AGENT_NAME the variable, vars the six
\* variables, file whether the YAML file exists and lists the agent,
\* yaml_keys the keys of its entry, api_key whether the variable that
\* api_key_env names is set, weather_key whether OPENWEATHER_API_KEY is set
Environments ==
    {[agent_name |-> n, AGENT_NAME |-> v, vars |-> x, file |-> f[1],
      yaml_keys |-> f[2], api_key |-> k, weather_key |-> w] :
        n \in {None, "named"}, v \in BOOLEAN, x \in EnvVarChoices,
        f \in {<<"absent", {}>>, <<"unlisted", {}>>}
              \cup {<<"listed", Settings \ d>> : d \in {{}} \cup {{s} : s \in Settings}},
        k \in BOOLEAN, w \in BOOLEAN}

\* float(value) and int(value) succeed
IsFloat(value) == value \in {"0.7", "8080"}
IsInt(value) == value = "8080"

\* config_loader._has_env_config
has_env_config(env) == \A var \in RequiredVars : ~Falsy(env.vars[var])

\* config_loader._load_from_env
load_from_env(env) ==
    IF \E var \in RequiredVars : Falsy(env.vars[var])
    THEN Raised("ValueError", "Missing required environment variables")
    ELSE IF ~IsFloat(env.vars["TEMPERATURE"])
    THEN Raised("ValueError", "could not convert string to float")
    ELSE IF ~IsInt(env.vars["PORT"])
    THEN Raised("ValueError", "invalid literal for int()")
    ELSE Returned([k \in Settings |->
                    CASE k = "temperature" -> env.vars["TEMPERATURE"] \o "f"
                      [] k = "port" -> env.vars["PORT"] \o "i"
                      [] OTHER -> env.vars[EnvVarOf(k)]])

\* A mutant of load_agent_config that reads the environment when any of the
\* six variables is set
load_agent_config_any(agent_name, env) ==
    IF agent_name = None /\ ~env.AGENT_NAME
    THEN Raised("ValueError", "AGENT_NAME environment variable not set")
    ELSE IF \E var \in RequiredVars : env.vars[var] # None
    THEN Returned([k \in {s \in Settings : env.vars[EnvVarOf(s)] # None} |->
                    env.vars[EnvVarOf(k)]])
    ELSE IF env.file = "absent" THEN Raised("ValueError", "Config file not found")
    ELSE IF env.file = "unlisted" THEN Raised("ValueError", "Agent not found")
    ELSE Returned(YamlEntry(env.yaml_keys))

\* config_loader.load_agent_config
load_agent_config(agent_name, env) ==
    IF agent_name = None /\ ~env.AGENT_NAME
    THEN Raised("ValueError", "AGENT_NAME environment variable not set")
    ELSE IF has_env_config(env) THEN load_from_env(env)
    ELSE IF env.file = "absent" THEN Raised("ValueError", "Config file not found")
    ELSE IF env.file = "unlisted" THEN Raised("ValueError", "Agent not found")
    ELSE Returned(YamlEntry(env.yaml_keys))

\* The order in which every constructor reads the keys of its configuration
KeyOrder == <<"provider", "model", "temperature", "port", "endpoint", "api_key_env">>

\* agent_config[key] for each key in turn: the first one absent raises
ReadKeys(cfg) ==
    IF \A i \in DOMAIN KeyOrder : KeyOrder[i] \in DOMAIN cfg
    THEN Returned(cfg)
    ELSE LET i == CHOOSE j \in DOMAIN KeyOrder :
                    /\ KeyOrder[j] \notin DOMAIN cfg
                    /\ \A h \in 1..(j - 1) : KeyOrder[h] \in DOMAIN cfg
         IN  Raised("KeyError", "'" \o KeyOrder[i] \o "'")

\* config["agents"][agent_name] of the agents that open the YAML file
\* themselves
yaml_agent_config(env) ==
    IF env.file = "absent" THEN Raised("FileNotFoundError", "No such file or directory")
    ELSE IF env.file = "unlisted" THEN Raised("KeyError", "agent name")
    ELSE Returned(YamlEntry(env.yaml_keys))

\* load_agent_config of langgraph-translator: the YAML entry if the file
\* exists, else the six variables as they are, PORT defaulting to 8080
translator_load_agent_config(env) ==
    IF env.file # "absent" THEN yaml_agent_config(env)
    ELSE IF env.vars["TEMPERATURE"] = None
    THEN Raised("TypeError", "float() argument must be a string or a real number")
    ELSE IF ~IsFloat(env.vars["TEMPERATURE"])
    THEN Raised("ValueError", "could not convert string to float")
    ELSE IF env.vars["PORT"] # None /\ ~IsInt(env.vars["PORT"])
    THEN Raised("ValueError", "invalid literal for int()")
    ELSE Returned([k \in Settings |->
                    CASE k = "temperature" -> env.vars["TEMPERATURE"] \o "f"
                      [] k = "port" ->
                            (IF env.vars["PORT"] = None THEN "8080"
                             ELSE env.vars["PORT"]) \o "i"
                      [] OTHER -> env.vars[EnvVarOf(k)]])

\* The providers for which a client can be built
KnownProviders == {"openai", "anthropic", "gemini"}

\* The agent object after __init__
AgentInstance(a, cfg, llm) ==
    [agent |-> a, provider |-> cfg["provider"], model_name |-> cfg["model"],
     port |-> cfg["port"], endpoint |-> cfg["endpoint"], llm |-> llm]

\* LangGraphTranslator.__init__; lib is what the LLM library does when it is
\* given no key or no model name: "accepts" or "rejects".  os.getenv(None)
\* raises, os.getenv("") is None: no variable has the empty name.
LangGraphTranslator(env, lib) ==
    LET loaded == translator_load_agent_config(env)
        cfg == IF loaded.ok THEN ReadKeys(loaded.value) ELSE loaded
    IN  IF ~cfg.ok THEN cfg
        ELSE IF cfg.value["api_key_env"] = None
        THEN Raised("TypeError", "str expected, not NoneType")
        ELSE IF cfg.value["provider"] \notin KnownProviders
        THEN Returned(AgentInstance("langgraph-translator", cfg.value, "no llm"))
        ELSE IF (~env.api_key \/ cfg.value["api_key_env"] = ""
                 \/ Falsy(cfg.value["model"])) /\ lib = "rejects"
        THEN Raised("ValidationError", "api_key or model")
        ELSE Returned(AgentInstance("langgraph-translator", cfg.value, "llm"))

\* CrewAIWeather.__init__
CrewAIWeather(env) ==
    LET loaded == yaml_agent_config(env)
        cfg == IF loaded.ok THEN ReadKeys(loaded.value) ELSE loaded
    IN  IF ~cfg.ok THEN cfg
        ELSE IF ~env.api_key THEN Raised("ValueError", "LLM API key not found")
        ELSE IF ~env.weather_key THEN Raised("ValueError", "OPENWEATHER_API_KEY is required")
        ELSE Returned(AgentInstance("crewai-weather", cfg.value, "llm"))

\* ADKWikipedia.__init__
ADKWikipedia(env) ==
    LET loaded == yaml_agent_config(env)
        cfg == IF loaded.ok THEN ReadKeys(loaded.value) ELSE loaded
    IN  IF ~cfg.ok THEN cfg
        ELSE IF ~env.api_key THEN Raised("ValueError", "API key not found")
        ELSE Returned(AgentInstance("adk-wikipedia", cfg.value, "llm"))

\* DataExtractor.__init__
DataExtractor(env) ==
    LET loaded == load_agent_config(None, env)
        cfg == IF loaded.ok THEN ReadKeys(loaded.value) ELSE loaded
    IN  IF ~cfg.ok THEN cfg
        ELSE IF ~env.api_key THEN Raised("ValueError", "API key not found")
        ELSE IF cfg.value["provider"] \notin KnownProviders
        THEN Raised("ValueError", "Unknown provider")
        ELSE Returned(AgentInstance("simple-extractor", cfg.value, "llm"))

\* agent = <Class>() in main() of agent a
Construct(a, env, lib) ==
    CASE a = "langgraph-translator" -> LangGraphTranslator(env, lib)
      [] a = "crewai-weather" -> CrewAIWeather(env)
      [] a = "adk-wikipedia" -> ADKWikipedia(env)
      [] a = "simple-extractor" -> DataExtractor(env)

\* No agent process has been started
NotStarted == [phase |-> "off"]

\* ENDPOINTS of the integration tests, in the order the loop visits them
ENDPOINTS == <<"translator", "weather", "wikipedia", "extractor">>
EndpointNames == {ENDPOINTS[n] : n \in 1..Len(ENDPOINTS)}

\* What requests.get(endpoint/health, timeout=5) may come back with: the
\* answer of /health, an answer with another status, or (NoResponse) a
\* RequestException
ProbeResults ==
    {[status |-> 200], [status |-> 503], NoResponse}

\* wait_for_all_agents has not been called
NotWaiting ==
    [phase |-> "off", max_retries |-> 0, at |-> 1, i |-> 0,
     probes |-> [e \in EndpointNames |-> 0], healthy |-> {}, result |-> FALSE]

\* The loop of wait_for_all_agents after one probe of the endpoint it is at
\* came back with r: break on a 200, return False on an exception in the
\* last round, else go round again; an inner loop that ends goes on to the
\* next endpoint, and the outer loop that ends returns True
AfterProbe(w, r) ==
    LET e == ENDPOINTS[w.at]
        counted == [w EXCEPT !.probes[e] = @ + 1,
                             !.healthy = IF r.status = 200 THEN @ \cup {e} ELSE @]
        next == [counted EXCEPT !.at = @ + 1, !.i = 0]
        moved == IF next.at > Len(ENDPOINTS)
                 THEN [next EXCEPT !.phase = "returned", !.result = TRUE]
                 ELSE next
    IN  IF r.status = 200 THEN moved
        ELSE IF r = NoResponse /\ w.i = w.max_retries - 1
        THEN [counted EXCEPT !.phase = "returned", !.result = FALSE]
        ELSE IF w.i = w.max_retries - 1 THEN moved
        ELSE [counted EXCEPT !.i = @ + 1]

\* The request of a call that sends no envelope
NoMessage == [message_id |-> None]

---------------------------------------------------------------------------
(* The state machine *)

\* A client call in progress
Call(op, endpoint, request, body) ==
    [op |-> op, endpoint |-> endpoint, request |-> request, body |-> body,
     netCalls |-> 1, exchange |-> NoExchange, response |-> NoResponse]

\* How a client call ended: netCalls counts the requests.post / requests.get
\* it issued; exchange is what the server did for it, if an
\* A2A server answered it; response is the HTTP answer the client received
Outcome(c, netCalls, result, response) ==
    [op |-> c.op, endpoint |-> c.endpoint, request |-> c.request,
     netCalls |-> netCalls, exchange |-> c.exchange, response |-> response,
     result |-> result]

Init ==
    /\ listener = [e \in Endpoints |-> IF e = "http://a" THEN "s1" ELSE Foreign]
    /\ cache = <<>>
    /\ pc = [t \in Threads |-> "idle"]
    /\ call = [t \in Threads |-> NoCall]
    /\ outcome = [t \in Threads |-> NoCall]
    /\ clock = 0
    /\ lastExchange = NoExchange
    /\ failStreak = [s \in Hosts |-> 0]
    /\ priorStreak = 0
    /\ firstInfo = <<>>
    /\ calls = 0
    /\ selfAgentInfo = [s \in Hosts |-> agent_info(s)]
    /\ external = "ok"
    /\ boot = NotStarted
    /\ readiness = NotWaiting

\* send_request up to the network call: build the request, POST it
SendRequest(t, to_agent, endpoint, payload) ==
    /\ pc[t] = "idle"
    /\ calls < MaxCalls
    /\ LET message == A2AMessage(Uuid(clock), ClientId, to_agent, "REQUEST",
                                 payload, None, None, clock)
       IN  call' = [call EXCEPT ![t] =
                       Call("send_request", endpoint, message, to_dict(message))]
    /\ pc' = [pc EXCEPT ![t] = "Sent"]
    /\ clock' = clock + 1
    /\ calls' = calls + 1
    /\ UNCHANGED <<listener, cache, outcome, lastExchange, failStreak, priorStreak,
                   firstInfo, selfAgentInfo,
                   external, boot, readiness>>

\* A mutant of the server that keeps the decoded body in an attribute and
\* builds the reply from the one it stored before
ServeMessageStale(t) ==
    /\ pc[t] = "Sent"
    /\ call[t].response = NoResponse
    /\ listener[call[t].endpoint] \in Hosts
    /\ LET s == listener[call[t].endpoint]
           body == IF lastExchange.server = s THEN lastExchange.data ELSE call[t].body
           ex == receive_message(s, body, Uuid(clock), clock)
       IN  /\ lastExchange' = [ex EXCEPT !.data = call[t].body]
           /\ failStreak' = [failStreak EXCEPT ![s] = StreakAfter(@, ex)]
           /\ priorStreak' = failStreak[s]
           /\ selfAgentInfo' = [selfAgentInfo EXCEPT ![s] = AgentInfoAfter(@, ex)]
           /\ call' = [call EXCEPT ![t].response = ex.http, ![t].exchange = ex]
    /\ clock' = clock + 1
    /\ UNCHANGED <<listener, cache, pc, outcome, firstInfo, calls, external, boot, readiness>>

\* The A2A server listening at the endpoint processes the POST of thread t
ServeMessage(t) ==
    /\ pc[t] = "Sent"
    /\ call[t].response = NoResponse
    /\ listener[call[t].endpoint] \in Hosts
    /\ LET s == listener[call[t].endpoint]
           ex == receive_message(s, call[t].body, Uuid(clock), clock)
       IN  /\ lastExchange' = ex
           /\ failStreak' = [failStreak EXCEPT ![s] = StreakAfter(@, ex)]
           /\ priorStreak' = failStreak[s]
           /\ selfAgentInfo' = [selfAgentInfo EXCEPT ![s] = AgentInfoAfter(@, ex)]
           /\ call' = [call EXCEPT ![t].response = ex.http, ![t].exchange = ex]
    /\ clock' = clock + 1
    /\ UNCHANGED <<listener, cache, pc, outcome, firstInfo, calls, external, boot, readiness>>

\* A foreign service listening at the endpoint answers the POST of thread t
ForeignAnswersMessage(t, r) ==
    /\ pc[t] = "Sent"
    /\ call[t].response = NoResponse
    /\ listener[call[t].endpoint] = Foreign
    /\ call' = [call EXCEPT ![t].response = r]
    /\ UNCHANGED <<listener, cache, pc, outcome, clock, lastExchange, failStreak,
                   priorStreak, firstInfo, calls, selfAgentInfo,
                   external, boot, readiness>>

\* send_request from the return of requests.post to its own return or raise
CompleteSend(t) ==
    /\ pc[t] = "Sent"
    /\ call[t].response # NoResponse
    /\ outcome' = [outcome EXCEPT ![t] =
          Outcome(call[t], call[t].netCalls,
                  send_request_result(call[t].response, clock),
                  call[t].response)]
    /\ pc' = [pc EXCEPT ![t] = "idle"]
    /\ call' = [call EXCEPT ![t] = NoCall]
    /\ clock' = clock + 1
    /\ UNCHANGED <<listener, cache, lastExchange, failStreak, priorStreak, firstInfo,
                   calls, selfAgentInfo,
                   external, boot, readiness>>

\* A mutant of the failure path that issues the call again after a timeout
TransportFailRetries(t, exc) ==
    /\ pc[t] \in {"Sent", "InfoSent"}
    /\ exc = "ConnectionError" => listener[call[t].endpoint] = NoListener
    /\ IF exc = "Timeout" /\ call[t].netCalls < 2
       THEN /\ call' = [call EXCEPT ![t].netCalls = @ + 1,
                                    ![t].response = NoResponse,
                                    ![t].exchange = NoExchange]
            /\ UNCHANGED <<outcome, pc, selfAgentInfo,
                   external, boot, readiness>>
       ELSE /\ outcome' = [outcome EXCEPT ![t] =
                  Outcome(call[t], call[t].netCalls, Raised(exc, exc), NoResponse)]
            /\ pc' = [pc EXCEPT ![t] = "idle"]
            /\ call' = [call EXCEPT ![t] = NoCall]
    /\ UNCHANGED <<listener, cache, clock, lastExchange, failStreak, priorStreak,
                   firstInfo, calls>>

\* A mutant of the failure path for a client built without a timeout
TransportFailNoTimeout(t, exc) ==
    /\ pc[t] \in {"Sent", "InfoSent"}
    /\ exc = "ConnectionError"
    /\ listener[call[t].endpoint] = NoListener
    /\ outcome' = [outcome EXCEPT ![t] =
          Outcome(call[t], call[t].netCalls, Raised(exc, exc), NoResponse)]
    /\ pc' = [pc EXCEPT ![t] = "idle"]
    /\ call' = [call EXCEPT ![t] = NoCall]
    /\ UNCHANGED <<listener, cache, clock, lastExchange, failStreak, priorStreak,
                   firstInfo, calls, selfAgentInfo,
                   external, boot, readiness>>

\* requests.post / requests.get raises: no listener (ConnectionError), or no
\* answer within the timeout, whether or not the server has processed the
\* request (Timeout)
TransportFail(t, exc) ==
    /\ pc[t] \in {"Sent", "InfoSent"}
    /\ exc = "ConnectionError" => listener[call[t].endpoint] = NoListener
    /\ outcome' = [outcome EXCEPT ![t] = 
          Outcome(call[t], call[t].netCalls, Raised(exc, exc), NoResponse)]
    /\ pc' = [pc EXCEPT ![t] = "idle"]
    /\ call' = [call EXCEPT ![t] = NoCall]
    /\ UNCHANGED <<listener, cache, clock, lastExchange, failStreak, priorStreak,
                   firstInfo, calls, selfAgentInfo,
                   external, boot, readiness>>

\* get_agent_info when the endpoint is in the cache
GetAgentInfoCached(t, endpoint) ==
    /\ pc[t] = "idle"
    /\ calls < MaxCalls
    /\ endpoint \in DOMAIN cache
    /\ outcome' = [outcome EXCEPT ![t] =
          Outcome(Call("get_agent_info", endpoint, NoMessage, NoMessage), 0,
                  Returned(cache[endpoint]), NoResponse)]
    /\ calls' = calls + 1
    /\ UNCHANGED <<listener, cache, pc, call, clock, lastExchange, failStreak,
                   priorStreak, firstInfo, selfAgentInfo,
                   external, boot, readiness>>

\* get_agent_info when it is not: up to the network call
GetAgentInfoFetch(t, endpoint) ==
    /\ pc[t] = "idle"
    /\ calls < MaxCalls
    /\ endpoint \notin DOMAIN cache
    /\ call' = [call EXCEPT ![t] = Call("get_agent_info", endpoint, NoMessage, NoMessage)]
    /\ pc' = [pc EXCEPT ![t] = "InfoSent"]
    /\ calls' = calls + 1
    /\ UNCHANGED <<listener, cache, outcome, clock, lastExchange, failStreak,
                   priorStreak, firstInfo, selfAgentInfo,
                   external, boot, readiness>>

\* The A2A server listening at the endpoint answers GET /info
ServeInfo(t) ==
    /\ pc[t] = "InfoSent"
    /\ call[t].response = NoResponse
    /\ listener[call[t].endpoint] \in Hosts
    /\ call' = [call EXCEPT ![t].response = info(listener[call[t].endpoint])]
    /\ UNCHANGED <<listener, cache, pc, outcome, clock, lastExchange, failStreak,
                   priorStreak, firstInfo, calls, selfAgentInfo,
                   external, boot, readiness>>

\* A foreign service listening at the endpoint answers GET /info
ForeignAnswersInfo(t, r) ==
    /\ pc[t] = "InfoSent"
    /\ call[t].response = NoResponse
    /\ listener[call[t].endpoint] = Foreign
    /\ call' = [call EXCEPT ![t].response = r]
    /\ UNCHANGED <<listener, cache, pc, outcome, clock, lastExchange, failStreak,
                   priorStreak, firstInfo, calls, selfAgentInfo,
                   external, boot, readiness>>

\* A mutant of CacheStore that forgets the descriptor
CacheStoreNothing(c, endpoint, agent) == c

\* A mutant of CacheStore that keeps one entry only, the latest
CacheStoreLatestOnly(c, endpoint, agent) == [e \in {endpoint} |-> agent]

\* A mutant of CacheStore that keeps the entry already there (setdefault)
CacheStoreFirstWins(c, endpoint, agent) ==
    IF endpoint \in DOMAIN c THEN c
    ELSE [e \in DOMAIN c \cup {endpoint} |-> IF e = endpoint THEN agent ELSE c[e]]

\* self._agent_cache[endpoint] = agent_info
CacheStore(c, endpoint, agent) ==
    [e \in DOMAIN c \cup {endpoint} |-> IF e = endpoint THEN agent ELSE c[e]]

\* A mutant of CompleteInfo that remembers a failed lookup too
CompleteInfoNegativeCache(t) ==
    /\ pc[t] = "InfoSent"
    /\ call[t].response # NoResponse
    /\ LET result == get_agent_info_result(call[t].response)
           endpoint == call[t].endpoint
       IN  /\ outcome' = [outcome EXCEPT ![t] =
                             Outcome(call[t], call[t].netCalls, result, call[t].response)]
           /\ cache' = CacheStore(cache, endpoint,
                                  IF result.ok THEN result.value ELSE None)
           /\ firstInfo' = IF result.ok /\ endpoint \notin DOMAIN firstInfo
                           THEN firstInfo @@ (endpoint :> result.value)
                           ELSE firstInfo
    /\ pc' = [pc EXCEPT ![t] = "idle"]
    /\ call' = [call EXCEPT ![t] = NoCall]
    /\ UNCHANGED <<listener, clock, lastExchange, failStreak, priorStreak, calls,
                   selfAgentInfo, external, boot, readiness>>

\* get_agent_info from the return of requests.get: build the descriptor,
\* store it, return it
CompleteInfo(t) ==
    /\ pc[t] = "InfoSent"
    /\ call[t].response # NoResponse
    /\ LET result == get_agent_info_result(call[t].response)
           endpoint == call[t].endpoint
       IN  /\ outcome' = [outcome EXCEPT ![t] =
                             Outcome(call[t], call[t].netCalls, result, call[t].response)]
           /\ cache' = IF result.ok THEN CacheStore(cache, endpoint, result.value)
                       ELSE cache
           /\ firstInfo' = IF result.ok /\ endpoint \notin DOMAIN firstInfo
                           THEN firstInfo @@ (endpoint :> result.value)
                           ELSE firstInfo
    /\ pc' = [pc EXCEPT ![t] = "idle"]
    /\ call' = [call EXCEPT ![t] = NoCall]
    /\ UNCHANGED <<listener, clock, lastExchange, failStreak, priorStreak, calls,
                   selfAgentInfo, external, boot, readiness>>

\* Some other caller POSTs a body to /message of the server at http://a
Post(s, data) ==
    /\ listener["http://a"] = s
    /\ LET ex == receive_message(s, data, Uuid(clock), clock)
       IN  /\ lastExchange' = ex
           /\ failStreak' = [failStreak EXCEPT ![s] = StreakAfter(@, ex)]
           /\ priorStreak' = failStreak[s]
           /\ selfAgentInfo' = [selfAgentInfo EXCEPT ![s] = AgentInfoAfter(@, ex)]
    /\ clock' = clock + 1
    /\ calls' = calls + 1
    /\ UNCHANGED <<listener, cache, pc, call, outcome, firstInfo, external, boot, readiness>>

\* ... in a run of the whole system
RawPost(s, data) == calls < MaxCalls /\ Post(s, data)

\* ... in a run of a server alone
ServerPost(s, data) == calls < MaxPosts /\ Post(s, data)

\* The deployment changes what listens at http://a
Rebind(l) ==
    /\ l # listener["http://a"]
    /\ listener' = [listener EXCEPT !["http://a"] = l]
    /\ UNCHANGED <<cache, pc, call, outcome, clock, lastExchange, failStreak,
                   priorStreak, firstInfo, calls, selfAgentInfo,
                   external, boot, readiness>>

\* What one thread of the client's user may do
ThreadStep(t) ==
    \/ \E to_agent \in AgentIds, endpoint \in Endpoints, payload \in Payloads :
          SendRequest(t, to_agent, endpoint, payload)
    \/ ServeMessage(t)
    \/ \E r \in ForeignMessageResponses : ForeignAnswersMessage(t, r)
    \/ CompleteSend(t)
    \/ \E exc \in {"ConnectionError", "Timeout"} : TransportFail(t, exc)
    \/ \E endpoint \in Endpoints : GetAgentInfoCached(t, endpoint)
    \/ \E endpoint \in Endpoints : GetAgentInfoFetch(t, endpoint)
    \/ ServeInfo(t)
    \/ \E r \in ForeignInfoResponses : ForeignAnswersInfo(t, r)
    \/ CompleteInfo(t)

\* The client used from one thread, as the reference design assumes
Next ==
    \/ ThreadStep("t1")
    \/ \E s \in Servers, data \in RawBodies : RawPost(s, data)
    \/ \E l \in Servers \cup {NoListener} : Rebind(l)

Spec == Init /\ [][Next]_vars

\* The client shared by two threads
NextConcurrent ==
    \/ \E t \in Threads : ThreadStep(t)
    \/ \E s \in Servers, data \in RawBodies : RawPost(s, data)
    \/ \E l \in Servers \cup {NoListener} : Rebind(l)

SpecConcurrent == Init /\ [][NextConcurrent]_vars

\* A server alone, with the bodies POSTed to it
NextServer ==
    \/ \E s \in Servers, data \in RawBodies : ServerPost(s, data)
    \/ \E l \in Servers \cup {NoListener} : Rebind(l)

\* The blocking network call of thread t comes back: with the answer, or
\* with the exception raised when nothing listens or the timeout elapses
ClientReturns(t) ==
    \/ CompleteSend(t)
    \/ CompleteInfo(t)
    \/ \E exc \in {"ConnectionError", "Timeout"} : TransportFail(t, exc)

\* The client and its peers, without other callers
NextClient ==
    \/ ThreadStep("t1")
    \/ \E l \in Servers \cup {NoListener} : Rebind(l)

\* requests.post(..., timeout=self.timeout) returns or raises in bounded
\* time, and the calling thread goes on running
SpecLive == Init /\ [][NextClient]_vars /\ WF_vars(ClientReturns("t1"))

\* What one thread does when it only discovers agents
InfoStep(t) ==
    \/ \E endpoint \in Endpoints : GetAgentInfoCached(t, endpoint)
    \/ \E endpoint \in Endpoints : GetAgentInfoFetch(t, endpoint)
    \/ ServeInfo(t)
    \/ \E r \in ForeignInfoResponses : ForeignAnswersInfo(t, r)
    \/ CompleteInfo(t)
    \/ \E exc \in {"ConnectionError", "Timeout"} : TransportFail(t, exc)

\* Two threads discovering agents through the same client
NextRace ==
    \/ \E t \in Threads : InfoStep(t)
    \/ \E l \in Servers \cup {NoListener} : Rebind(l)

SpecRace == Init /\ [][NextRace]_vars

\* What one thread does when it only sends requests to http://a
MessageStep(t) ==
    \/ \E to_agent \in AgentIds, payload \in Payloads :
          SendRequest(t, to_agent, "http://a", payload)
    \/ ServeMessage(t)
    \/ CompleteSend(t)
    \/ TransportFail(t, "Timeout")

\* Two threads with requests in flight at the same server
NextParallel ==
    \/ \E t \in Threads : MessageStep(t)
    \/ \E l \in Servers : Rebind(l)

SpecParallel == Init /\ [][NextParallel]_vars

\* What a foreign service may answer to GET /info when only discovery is
\* looked at: also a 300 without Location, which requests hands back as is
DiscoveryResponses ==
    ForeignInfoResponses \cup {[status |-> 300, body |-> ForeignInfo]}

\* One thread discovering agents, whatever listens at the endpoints
NextDiscovery ==
    \/ \E endpoint \in Endpoints : GetAgentInfoCached("t1", endpoint)
    \/ \E endpoint \in Endpoints : GetAgentInfoFetch("t1", endpoint)
    \/ ServeInfo("t1")
    \/ \E r \in DiscoveryResponses : ForeignAnswersInfo("t1", r)
    \/ CompleteInfo("t1")
    \/ \E exc \in {"ConnectionError", "Timeout"} : TransportFail("t1", exc)
    \/ \E l \in Servers \cup {NoListener} : Rebind(l)

SpecDiscovery == Init /\ [][NextDiscovery]_vars

\* The payloads sent to the agents: each supported action with its input
\* filled, empty and absent, an action no agent knows, and no action at all
AgentPayloads ==
    UNION {{[action |-> SupportedAction(a)] @@ (RequiredField(a) :> "Paris"),
            [action |-> SupportedAction(a)] @@ (RequiredField(a) :> ""),
            [action |-> SupportedAction(a)]} : a \in Agents}
    \cup {[action |-> "dance", text |-> "Paris"], [text |-> "Paris"]}

\* The outside services start behaving differently
ExternalChanges(x) ==
    /\ x # external
    /\ external' = x
    /\ UNCHANGED <<listener, cache, pc, call, outcome, clock, lastExchange,
                   failStreak, priorStreak, firstInfo, calls, selfAgentInfo,
                   boot, readiness>>

\* A client sending requests to whichever agent is deployed at http://a
NextAgents ==
    \/ \E to_agent \in AgentIds, payload \in AgentPayloads :
          calls < MaxAgentCalls /\ SendRequest("t1", to_agent, "http://a", payload)
    \/ ServeMessage("t1")
    \/ CompleteSend("t1")
    \/ TransportFail("t1", "Timeout")
    \/ \E a \in Agents : Rebind(a)
    \/ \E x \in ExternalOutcomes : ExternalChanges(x)

SpecAgents == Init /\ [][NextAgents]_vars

\* An agent process is started in some environment
StartProcess(a, env, lib) ==
    /\ boot.phase = "off"
    /\ boot' = [phase |-> "starting", agent |-> a, env |-> env, lib |-> lib]
    /\ UNCHANGED <<listener, cache, pc, call, outcome, clock, lastExchange,
                   failStreak, priorStreak, firstInfo, calls, selfAgentInfo,
                   external, readiness>>

\* main(): agent = <Class>(); an exception ends the process
ConstructAgent ==
    /\ boot.phase = "starting"
    /\ LET built == Construct(boot.agent, boot.env, boot.lib)
       IN  boot' = IF built.ok
                   THEN [phase |-> "constructed", agent |-> boot.agent,
                         env |-> boot.env, lib |-> boot.lib,
                         instance |-> built.value]
                   ELSE [phase |-> "failed", agent |-> boot.agent,
                         env |-> boot.env, lib |-> boot.lib, exc |-> built.exc]
    /\ UNCHANGED <<listener, cache, pc, call, outcome, clock, lastExchange,
                   failStreak, priorStreak, firstInfo, calls, selfAgentInfo,
                   external, readiness>>

\* main(): AgentInfo(...), A2AServer(agent_info, handler, agent.port), run()
RunServer ==
    /\ boot.phase = "constructed"
    /\ boot' = [boot EXCEPT !.phase = "serving"]
    /\ selfAgentInfo' = [selfAgentInfo EXCEPT ![boot.agent] =
                            main_agent_info(boot.agent, boot.instance)]
    /\ UNCHANGED <<listener, cache, pc, call, outcome, clock, lastExchange,
                   failStreak, priorStreak, firstInfo, calls,
                   external, readiness>>

\* The process ends, by its exception or by being stopped; its server object
\* goes with it, and the host is again as the deployment first had it
ExitProcess ==
    /\ boot.phase \in {"failed", "serving"}
    /\ boot' = NotStarted
    /\ selfAgentInfo' = [s \in Hosts |-> agent_info(s)]
    /\ UNCHANGED <<listener, cache, pc, call, outcome, clock, lastExchange,
                   failStreak, priorStreak, firstInfo, calls,
                   external, readiness>>

\* wait_for_all_agents(max_retries) is called: with nothing to try it
\* returns True at once
WaitForAllAgents(max_retries) ==
    /\ readiness.phase = "off"
    /\ readiness' = IF max_retries = 0
                    THEN [NotWaiting EXCEPT !.phase = "returned", !.result = TRUE]
                    ELSE [NotWaiting EXCEPT !.phase = "probing",
                                            !.max_retries = max_retries]
    /\ UNCHANGED <<listener, cache, pc, call, outcome, clock, lastExchange,
                   failStreak, priorStreak, firstInfo, calls, selfAgentInfo,
                   external, boot>>

\* One health probe of the loop comes back
Probe(r) ==
    /\ readiness.phase = "probing"
    /\ readiness' = AfterProbe(readiness, r)
    /\ UNCHANGED <<listener, cache, pc, call, outcome, clock, lastExchange,
                   failStreak, priorStreak, firstInfo, calls, selfAgentInfo,
                   external, boot>>

\* The readiness loop of the integration tests
NextReadiness ==
    \/ \E max_retries \in 0..MaxRetries : WaitForAllAgents(max_retries)
    \/ \E r \in ProbeResults : Probe(r)

SpecReadiness == Init /\ [][NextReadiness]_vars

\* Some code calls load_agent_config(agent_name) in environment env
LoadAgentConfig(agent_name, env) ==
    /\ boot' = [phase |-> "loaded", agent_name |-> agent_name, env |-> env,
                result |-> load_agent_config(agent_name, env)]
    /\ UNCHANGED <<listener, cache, pc, call, outcome, clock, lastExchange,
                   failStreak, priorStreak, firstInfo, calls, selfAgentInfo,
                   external, readiness>>

\* Calls of the shared configuration loader
NextConfig ==
    \E env \in Environments : LoadAgentConfig(env.agent_name, env)

SpecConfig == Init /\ [][NextConfig]_vars

\* The start of an agent process
NextStartup ==
    \/ \E a \in Agents, env \in Environments, lib \in {"accepts", "rejects"} :
          StartProcess(a, env, lib)
    \/ ConstructAgent
    \/ RunServer
    \/ ExitProcess

SpecStartup == Init /\ [][NextStartup]_vars

SpecServer == Init /\ [][NextServer]_vars

---------------------------------------------------------------------------
(* Properties *)

\* The envelope, as a dict, that an HTTP answer of the server carries: the
\* body of a 200, the detail member of the body of a 500
Carried(http) == IF http.status = 200 THEN http.body ELSE http.body["detail"]

\* The body of an HTTP answer decodes with A2AMessage.from_dict
Decodes(body) == from_dict(body, 0).ok

\* C1: every body that decodes and is POSTed to /message is answered with an
\* envelope (a response if the handler returned, an error if it raised)
\* whose reply_to is the request's message_id and whose to_agent is the
\* request's from_agent.
C1_Correlation ==
    LET ex == lastExchange
    IN  (ex.server # None /\ ex.decoded.ok) =>
            /\ ex.emitted.message_type = IF ex.result.ok THEN "RESPONSE" ELSE "ERROR"
            /\ ex.emitted.reply_to = ex.data["message_id"]
            /\ ex.emitted.to_agent = ex.data["from_agent"]
            /\ Carried(ex.http) = to_dict(ex.emitted)

C1_Witness ==
    /\ lastExchange.server # None
    /\ lastExchange.decoded.ok
    /\ ~lastExchange.result.ok
    /\ lastExchange.data["from_agent"] = ClientId
    /\ Carried(lastExchange.http)["reply_to"] = lastExchange.data["message_id"]
    /\ Carried(lastExchange.http)["to_agent"] = ClientId

\* C2: when an A2A server answers a send_request and its handler returns a
\* mapping m, the handler was given an envelope with the caller's payload and
\* send_request returns exactly m.
C2_PayloadPassThrough ==
    \A t \in Threads :
        LET o == outcome[t]
        IN  (o.op = "send_request" /\ o.response # NoResponse /\ o.exchange # NoExchange) =>
                /\ o.exchange.handled
                /\ o.exchange.decoded.value.payload = o.request.payload
                /\ o.exchange.result.ok => o.result = Returned(o.exchange.result.value)

C2_Witness ==
    /\ outcome["t1"].op = "send_request"
    /\ outcome["t1"].request.payload = [action |-> "echo", text |-> "hi"]
    /\ outcome["t1"].result = Returned([status |-> "success", text |-> "hi"])

\* C3, as claimed: send_request raises whenever the network call fails or
\* times out, the status is not 2xx, or the body does not decode.
C3_Original ==
    \A t \in Threads :
        LET o == outcome[t]
        IN  (o.op = "send_request"
             /\ (\/ o.response = NoResponse
                 \/ o.response.status \notin 200..299
                 \/ ~Decodes(o.response.body))) => ~o.result.ok

\* C3, amended: send_request raises whenever the network call fails or times
\* out, the status is 4xx or 5xx, or the body does not decode.
C3_NoMasking ==
    \A t \in Threads :
        LET o == outcome[t]
        IN  (o.op = "send_request"
             /\ (\/ o.response = NoResponse
                 \/ o.response.status \in 400..599
                 \/ ~Decodes(o.response.body))) => ~o.result.ok

C3_Witness ==
    /\ outcome["t1"].op = "send_request"
    /\ outcome["t1"].response # NoResponse
    /\ outcome["t1"].response.status = 200
    /\ ~Decodes(outcome["t1"].response.body)
    /\ ~outcome["t1"].result.ok

\* C4, as claimed: when the server answers a request with an error-kind
\* envelope, send_request returns the payload of that envelope.
C4_Original ==
    \A t \in Threads :
        LET o == outcome[t]
        IN  (o.op = "send_request" /\ o.response # NoResponse /\ o.exchange # NoExchange
             /\ o.exchange.emitted.message_type = "ERROR") =>
                o.result = Returned(o.exchange.emitted.payload)

\* C4, amended: send_request returns the payload of the envelope in a body
\* that arrives with a status that is not 4xx or 5xx, whatever the kind of
\* the envelope; an error envelope of the A2A server arrives with status 500,
\* and send_request then raises HTTPError and returns no payload.
C4_ErrorReplies ==
    \A t \in Threads :
        LET o == outcome[t]
        IN  (o.op = "send_request" /\ o.response # NoResponse) =>
                /\ (o.response.status \notin 400..599 /\ Decodes(o.response.body)) =>
                        o.result = Returned(o.response.body["payload"])
                /\ (o.exchange # NoExchange /\ o.exchange.emitted.message_type = "ERROR") =>
                        /\ o.response.status = 500
                        /\ ~o.result.ok
                        /\ o.result.exc = "HTTPError"

C4_Witness ==
    /\ outcome["t1"].op = "send_request"
    /\ outcome["t1"].exchange # NoExchange
    /\ outcome["t1"].exchange.handled
    /\ ~outcome["t1"].exchange.result.ok
    /\ outcome["t1"].response # NoResponse
    /\ outcome["t1"].result.exc = "HTTPError"

\* C5: a POST whose handler raises is answered with an error envelope in an
\* HTTP 500 and leaves the server serving: after any streak of such POSTs the
\* server still accepts a POST, and one whose handler returns is answered
\* with status 200 and a response envelope correlated to it, carrying the
\* handler's result.
C5_HandlerIsolation ==
    LET ex == lastExchange
    IN  /\ (ex.server # None /\ ex.handled /\ ~ex.result.ok) =>
                /\ ex.http.status = 500
                /\ ex.http.body["detail"]["message_type"] = "error"
                /\ failStreak[ex.server] = priorStreak + 1
        /\ (ex.server # None /\ ex.handled /\ ex.result.ok) =>
                /\ ex.http.status = 200
                /\ ex.http.body["message_type"] = "response"
                /\ ex.http.body["reply_to"] = ex.data["message_id"]
                /\ ex.http.body["to_agent"] = ex.data["from_agent"]
                /\ ex.http.body["payload"] = ex.result.value
        /\ \A s \in Servers :
              (listener["http://a"] = s /\ calls < MaxPosts) =>
                  ENABLED ServerPost(s, RawBase([action |-> "echo", text |-> "hi"]))

C5_Witness ==
    /\ lastExchange.server # None
    /\ lastExchange.handled
    /\ lastExchange.result.ok
    /\ priorStreak >= 2
    /\ lastExchange.http.status = 200

\* C6, as claimed: a body whose message_type is not a recognized kind is
\* answered with a non-2xx status and a body that A2AMessage.from_dict
\* decodes to an envelope of kind error.
C6_Original ==
    LET ex == lastExchange
    IN  (ex.server # None /\ "message_type" \in DOMAIN ex.data
         /\ ~IsMessageTypeValue(ex.data["message_type"])) =>
            /\ ex.http.status \notin 200..299
            /\ Decodes(ex.http.body)
            /\ from_dict(ex.http.body, 0).value.message_type = "ERROR"

\* C6, amended: such a body is answered with status 500 and a body whose only
\* member, detail, is what A2AMessage.from_dict decodes to an envelope of
\* kind error; the body itself does not decode.
C6_BogusKind ==
    LET ex == lastExchange
    IN  (ex.server # None /\ "message_type" \in DOMAIN ex.data
         /\ ~IsMessageTypeValue(ex.data["message_type"])) =>
            /\ ex.http.status = 500
            /\ DOMAIN ex.http.body = {"detail"}
            /\ ~Decodes(ex.http.body)
            /\ Decodes(ex.http.body["detail"])
            /\ from_dict(ex.http.body["detail"], 0).value.message_type = "ERROR"

C6_Witness ==
    /\ lastExchange.server # None
    /\ "message_type" \in DOMAIN lastExchange.data
    /\ lastExchange.data["message_type"] = "bogus"
    /\ lastExchange.http.status = 500
    /\ Decodes(lastExchange.http.body["detail"])

\* C7, as claimed: on a decode failure, a body that carries from_agent and
\* message_id is answered with an error envelope whose to_agent and reply_to
\* are those two.
C7_Original ==
    LET ex == lastExchange
    IN  (ex.server # None /\ ~ex.decoded.ok
         /\ {"from_agent", "message_id"} \subseteq DOMAIN ex.data) =>
            /\ ex.emitted.to_agent = ex.data["from_agent"]
            /\ ex.emitted.reply_to = ex.data["message_id"]

\* C7, amended: on a decode failure the error envelope has to_agent "unknown"
\* and no reply_to, whatever the body carries; the request's from_agent and
\* message_id are used only when the body decoded and the handler raised.
C7_DecodeFailureAddressing ==
    LET ex == lastExchange
    IN  (ex.server # None /\ ~ex.result.ok) =>
            /\ Carried(ex.http) = to_dict(ex.emitted)
            /\ ex.emitted.message_type = "ERROR"
            /\ ex.emitted.to_agent = IF ex.decoded.ok THEN ex.data["from_agent"] ELSE "unknown"
            /\ ex.emitted.reply_to = IF ex.decoded.ok THEN ex.data["message_id"] ELSE None

C7_Witness ==
    /\ lastExchange.server # None
    /\ ~lastExchange.decoded.ok
    /\ {"from_agent", "message_id"} \subseteq DOMAIN lastExchange.data
    /\ lastExchange.emitted.to_agent = "unknown"
    /\ lastExchange.data["from_agent"] = "peer"

\* C8, as claimed: every envelope the server emits carries a reply_to that is
\* not absent and is the message_id of the request it answers.
C8_Original ==
    LET ex == lastExchange
    IN  ex.server # None =>
            /\ ex.emitted.reply_to # None
            /\ "message_id" \in DOMAIN ex.data
            /\ ex.emitted.reply_to = ex.data["message_id"]

\* C8, amended: every envelope the server emits is a response or an error;
\* in answer to a body that decoded its reply_to is the message_id of that
\* request, in answer to a body that did not decode it has no reply_to.
C8_ReplyTo ==
    LET ex == lastExchange
    IN  ex.server # None =>
            /\ ex.emitted.message_type \in {"RESPONSE", "ERROR"}
            /\ ex.emitted.reply_to = IF ex.decoded.ok THEN ex.decoded.value.message_id ELSE None
            /\ ex.decoded.ok => ex.decoded.value.message_id = ex.data["message_id"]
            /\ Carried(ex.http)["reply_to"] = ex.emitted.reply_to

C8_Witness ==
    /\ lastExchange.server # None
    /\ "message_id" \notin DOMAIN lastExchange.data
    /\ lastExchange.emitted.message_type = "ERROR"
    /\ lastExchange.emitted.reply_to = None

\* C9: once a get_agent_info of an endpoint has succeeded on a client used
\* from one thread, the cache holds what it returned, no later call for that
\* endpoint goes to the network, and every later call returns that same
\* descriptor, whatever listens at the endpoint by then.
C9_CacheBehaviour ==
    /\ \A e \in DOMAIN firstInfo : e \in DOMAIN cache /\ cache[e] = firstInfo[e]
    /\ \A t \in Threads :
          pc[t] = "InfoSent" => call[t].endpoint \notin DOMAIN firstInfo
    /\ \A t \in Threads :
          LET o == outcome[t]
          IN  (o.op = "get_agent_info" /\ o.endpoint \in DOMAIN firstInfo) =>
                  o.result = Returned(firstInfo[o.endpoint])
    /\ \A t \in Threads :
          LET o == outcome[t]
          IN  (o.op = "get_agent_info" /\ o.netCalls = 0) =>
                  o.endpoint \in DOMAIN firstInfo

C9_Witness ==
    /\ outcome["t1"].op = "get_agent_info"
    /\ outcome["t1"].netCalls = 0
    /\ outcome["t1"].endpoint = "http://a"
    /\ listener["http://a"] = "s2"
    /\ outcome["t1"].result.value.agent_id = "agentA"
    /\ info("s2").body["agent_id"] # "agentA"

\* C10: a body whose message_type is absent or is not one of "request",
\* "response", "error", or that lacks a required field, does not decode:
\* from_dict raises, no envelope is built and the handler is not called.
C10_KindExhaustiveness ==
    LET ex == lastExchange
    IN  (ex.server # None
         /\ (\/ "message_type" \notin DOMAIN ex.data
             \/ ex.data["message_type"] \notin {"request", "response", "error"}
             \/ ~(RequiredFields \subseteq DOMAIN ex.data))) =>
            /\ ~ex.decoded.ok
            /\ ex.decoded.exc \in {"KeyError", "ValueError", "TypeError"}
            /\ ~ex.handled
            /\ ex.http.status = 500

C10_Witness ==
    /\ lastExchange.server # None
    /\ "message_type" \in DOMAIN lastExchange.data
    /\ lastExchange.data["message_type"] = "REQUEST"
    /\ ~lastExchange.decoded.ok
    /\ lastExchange.decoded.exc = "ValueError"

---------------------------------------------------------------------------
(* Claims C11..C20 *)

\* The envelopes constructed so far that the state still holds: the request
\* of each call in flight or finished, and the envelope the last exchange
\* decoded and the one it emitted
Constructed ==
    {call[t].request : t \in {u \in Threads : call[u].op = "send_request"}}
    \cup {outcome[t].request : t \in {u \in Threads : outcome[u].op = "send_request"}}
    \cup (IF lastExchange.server # None
          THEN {lastExchange.emitted}
               \cup (IF lastExchange.decoded.ok THEN {lastExchange.decoded.value} ELSE {})
          ELSE {})

\* C11: for every constructed envelope e, of any kind and with reply_to
\* present or absent, from_dict(e.to_dict()) at any later time equals e field
\* for field, and to_dict renders message_type as the lowercase string of
\* the kind.
C11_RoundTrip ==
    \A e \in Constructed :
        /\ from_dict(to_dict(e), clock + 1) = Returned(e)
        /\ DOMAIN to_dict(e) = MessageFields
        /\ to_dict(e).message_type = MessageTypeValue(e.message_type)
        /\ to_dict(e).message_type \in {"request", "response", "error"}

C11_Witness ==
    /\ \E e \in Constructed : e.message_type = "REQUEST" /\ e.reply_to = None
    /\ \E e \in Constructed : e.message_type = "RESPONSE" /\ e.reply_to # None
    /\ \E e \in Constructed : e.message_type = "ERROR" /\ e.reply_to # None
    /\ \A e \in Constructed : from_dict(to_dict(e), clock + 1).value.timestamp = e.timestamp

\* C12: when the handler raises on a decoded request, the server emits an
\* envelope of kind error whose from_agent is the server's agent_id and whose
\* payload is exactly {error: str(exception)}, inside an HTTP 500; a body
\* that does not decode gets the same status and an envelope of the same
\* shape, with the decoding exception's text.
C12_ErrorEnvelope ==
    LET ex == lastExchange
        raised == IF ex.decoded.ok
                  THEN message_handler(ex.server, ex.decoded.value)
                  ELSE ex.decoded
    IN  (ex.server # None /\ ~raised.ok) =>
            /\ ex.handled = ex.decoded.ok
            /\ ex.emitted.message_type = "ERROR"
            /\ ex.emitted.from_agent = agent_info(ex.server).agent_id
            /\ DOMAIN ex.emitted.payload = {"error"}
            /\ ex.emitted.payload["error"] = raised.text
            /\ DOMAIN ex.emitted = MessageFields
            /\ ex.http.status = 500
            /\ Carried(ex.http) = to_dict(ex.emitted)

C12_Witness ==
    /\ lastExchange.server = "s1"
    /\ lastExchange.handled
    /\ lastExchange.emitted.payload = [error |-> "handler failed"]
    /\ lastExchange.emitted.from_agent = "agentA"
    /\ lastExchange.http.status = 500

\* How an invocation that has left Sent ended: with an HTTP answer in hand,
\* or with requests.post raising
Replied(o) == o.response # NoResponse
TransportFailed(o) ==
    /\ o.response = NoResponse
    /\ ~o.result.ok
    /\ o.result.exc \in {"ConnectionError", "Timeout"}

\* One step of an invocation of thread t, as the claim describes it
C13_Step(t) ==
    /\ (pc[t] = "idle" /\ pc'[t] # "idle") =>
            /\ call'[t].netCalls = 1
            /\ call'[t].response = NoResponse
            /\ call'[t].op = "send_request" => pc'[t] = "Sent"
            /\ call'[t].op = "get_agent_info" =>
                    pc'[t] = "InfoSent" /\ call'[t].endpoint \notin DOMAIN cache
    /\ (pc[t] # "idle" /\ pc'[t] # "idle") =>
            /\ pc'[t] = pc[t]
            /\ call'[t].netCalls = call[t].netCalls
            /\ call'[t].request = call[t].request
            /\ call'[t].body = call[t].body
            /\ call[t].response # NoResponse => call'[t].response = call[t].response
    /\ (pc[t] # "idle" /\ pc'[t] = "idle") =>
            /\ outcome'[t].op = call[t].op
            /\ outcome'[t].request = call[t].request
            /\ outcome'[t].netCalls = 1
            /\ Replied(outcome'[t]) # TransportFailed(outcome'[t])
    /\ (pc[t] = "idle" /\ pc'[t] = "idle" /\ outcome'[t] # outcome[t]) =>
            /\ outcome'[t].op = "get_agent_info"
            /\ outcome'[t].endpoint \in DOMAIN cache
            /\ outcome'[t].netCalls = 0
            /\ outcome'[t].result = Returned(cache[outcome'[t].endpoint])

\* C13: every send_request moves Built -> Sent -> exactly one of Replied or
\* TransportFailed with exactly one network call, the same request all
\* along, and no second call after a failure or timeout; get_agent_info
\* issues exactly one network call on a cache miss and none on a hit.
C13_NoRetry == [][\A t \in Threads : C13_Step(t)]_vars

C13_Witness ==
    /\ outcome["t1"].op = "send_request"
    /\ TransportFailed(outcome["t1"])
    /\ outcome["t1"].result.exc = "Timeout"
    /\ outcome["t1"].exchange # NoExchange
    /\ outcome["t1"].netCalls = 1
    /\ pc["t1"] = "idle"
    /\ calls < MaxCalls

\* C14: a send_request whose endpoint has no listener, or whose server never
\* answers, ends by raising a transport error; no send_request stays in the
\* Sent state forever.
C14_Terminates ==
    /\ \A t \in {"t1"} : (pc[t] = "Sent") ~> (pc[t] = "idle")
    /\ [](\A t \in {"t1"} :
            (outcome[t].op = "send_request" /\ outcome[t].response = NoResponse) =>
                /\ ~outcome[t].result.ok
                /\ outcome[t].result.exc \in {"ConnectionError", "Timeout"})

C14_Witness ==
    /\ outcome["t1"].op = "send_request"
    /\ listener[outcome["t1"].endpoint] = NoListener
    /\ outcome["t1"].exchange = NoExchange
    /\ outcome["t1"].result = Raised("ConnectionError", "ConnectionError")
    /\ pc["t1"] = "idle"

\* C15, as claimed: the first get_agent_info of an endpoint served by an A2A
\* server returns a descriptor equal to the one bound to that server, its
\* capabilities being AgentCapability records in the same order.
C15_Original ==
    \A t \in Threads, s \in Servers :
        LET o == outcome[t]
        IN  (o.op = "get_agent_info" /\ o.netCalls = 1 /\ o.response = info(s)) =>
                /\ o.result = Returned(agent_info(s))
                /\ \A i \in DOMAIN agent_info(s).capabilities :
                        o.result.value.capabilities[i] = agent_info(s).capabilities[i]

\* What get_agent_info returns instead: the descriptor with each capability
\* left as the plain dict of the /info body
C15_CapabilitiesStayDicts ==
    \A t \in Threads, s \in Servers :
        LET o == outcome[t]
        IN  (o.op = "get_agent_info" /\ o.netCalls = 1 /\ o.response = info(s)) =>
                /\ o.result.ok
                /\ o.result.value = AgentInfo_to_dict(agent_info(s))
                /\ AgentInfo_to_dict(o.result.value) = AgentInfo_to_dict(agent_info(s))
                /\ \A i \in DOMAIN agent_info(s).capabilities :
                        /\ "cls" \notin DOMAIN o.result.value.capabilities[i]
                        /\ o.result.value.capabilities[i]
                              = CapabilityAsDict(agent_info(s).capabilities[i])

\* C16: the cache of a client is empty at construction and only grows: once
\* it maps an endpoint to a descriptor, no later send_request or
\* get_agent_info, to the same or to another endpoint, removes or replaces
\* that mapping.
C16_CacheMonotonic ==
    /\ cache = <<>>
    /\ [][\A e \in DOMAIN cache : e \in DOMAIN cache' /\ cache'[e] = cache[e]]_vars

C16_Witness ==
    /\ DOMAIN cache = Endpoints
    /\ firstInfo = cache
    /\ outcome["t1"].op = "get_agent_info"
    /\ outcome["t1"].endpoint = "http://b"
    /\ "http://a" \in DOMAIN cache

\* C17: after any sequence of POST /message requests, successful,
\* undecodable or with a raising handler, GET /health answers {status:
\* "healthy", agent: <the server's agent_id>} and GET /info answers the
\* descriptor the server was constructed with.
C17_ReadOnlyRoutes ==
    \A s \in Servers :
        /\ health(s) = [status |-> 200,
                        body |-> [status |-> "healthy",
                                  agent |-> agent_info(s).agent_id]]
        /\ info(s) = [status |-> 200, body |-> AgentInfo_to_dict(agent_info(s))]

C17_Witness ==
    /\ lastExchange.server = "s1"
    /\ ~lastExchange.result.ok
    /\ failStreak["s1"] >= 1
    /\ pc["t1"] = "InfoSent"
    /\ call["t1"].response = info("s1")
    /\ call["t1"].response.body["status"] = DefaultStatus
    /\ health("s1").body["agent"] = "agentA"

\* The invocations of send_request that an A2A server has answered, in flight
\* or finished
Answered ==
    {c \in {call[t] : t \in Threads} \cup {outcome[t] : t \in Threads} :
        c.op = "send_request" /\ c.exchange # NoExchange}

\* C18: whatever the interleaving of the requests in flight at a server whose
\* handler is a function of the envelope, the reply to each request carries
\* reply_to and to_agent of that request and the payload the handler produces
\* for that request's envelope, and never the ids of another request in
\* flight.
C18_Statelessness ==
    \A c \in Answered :
        LET reply == Carried(c.exchange.http)
            produced == message_handler(c.exchange.server, c.request)
        IN  /\ c.exchange.data = to_dict(c.request)
            /\ reply["reply_to"] = c.request.message_id
            /\ reply["to_agent"] = c.request.from_agent
            /\ reply["from_agent"] = agent_info(c.exchange.server).agent_id
            /\ reply["payload"] = IF produced.ok THEN produced.value
                                  ELSE [error |-> produced.text]
            /\ \A t \in Threads :
                  (call[t].op = "send_request" /\ call[t].request # c.request) =>
                        reply["reply_to"] # call[t].request.message_id

C18_Witness ==
    /\ pc["t1"] = "Sent" /\ pc["t2"] = "Sent"
    /\ call["t1"].exchange # NoExchange /\ call["t2"].exchange # NoExchange
    /\ call["t1"].request.payload # call["t2"].request.payload
    /\ call["t1"].request.timestamp = IsoFormat(0)
    /\ lastExchange = call["t1"].exchange
    /\ call["t1"].exchange.result.ok
    /\ ~call["t2"].exchange.result.ok
    /\ call["t1"].exchange.server = call["t2"].exchange.server

\* C19: two threads calling get_agent_info on one client for the same
\* uncached endpoint may both perform GET /info, since the miss test, the
\* fetch and the store are separate steps; each caller returns the
\* descriptor of its own fetch, so they differ if the served descriptor
\* changed in between, and each store overwrites the cache, which ends up
\* holding the descriptor stored last.
C19_DiscoveryRace ==
    [][\A t \in Threads :
          (pc[t] = "InfoSent" /\ pc'[t] = "idle" /\ outcome'[t].result.ok) =>
              /\ outcome'[t].result = AgentInfo_from_json(call[t].response.body)
              /\ cache'[call[t].endpoint] = outcome'[t].result.value
              /\ \A u \in Threads \ {t} :
                    (outcome[u].op = "get_agent_info"
                     /\ outcome[u].endpoint = call[t].endpoint) =>
                          outcome'[u] = outcome[u]]_vars

C19_Witness ==
    /\ outcome["t1"].op = "get_agent_info" /\ outcome["t2"].op = "get_agent_info"
    /\ outcome["t1"].endpoint = "http://a" /\ outcome["t2"].endpoint = "http://a"
    /\ outcome["t1"].netCalls = 1 /\ outcome["t2"].netCalls = 1
    /\ outcome["t1"].result.ok /\ outcome["t2"].result.ok
    /\ outcome["t1"].result.value # outcome["t2"].result.value
    /\ firstInfo["http://a"] = outcome["t1"].result.value
    /\ cache["http://a"] = outcome["t2"].result.value

\* C20: for each of the four agents, a request whose payload action is not
\* the agent's supported action makes the handler return a mapping with
\* status "error" and a message without calling any outside service; the
\* server answers 200 with a response envelope carrying it, and send_request
\* returns it instead of raising.
C20_UnknownAction ==
    \A c \in Answered :
        LET ex == c.exchange
            action == Get(c.request.payload, "action")
        IN  (ex.server \in Agents /\ action # SupportedAction(ex.server)) =>
                /\ ex.handled
                /\ ex.result.ok
                /\ ~ex.result.invoked
                /\ ex.result.value.status = "error"
                /\ "message" \in DOMAIN ex.result.value
                /\ ex.emitted.message_type = "RESPONSE"
                /\ ex.http = [status |-> 200, body |-> to_dict(ex.emitted)]
                /\ ex.emitted.payload = ex.result.value
                /\ (c \in {outcome[t] : t \in Threads} /\ c.response # NoResponse) =>
                        c.result = Returned(ex.result.value)

C20_Witness ==
    /\ outcome["t1"].op = "send_request"
    /\ outcome["t1"].exchange # NoExchange
    /\ outcome["t1"].exchange.server = "crewai-weather"
    /\ outcome["t1"].request.payload = [action |-> "translate", text |-> "Paris"]
    /\ external = "raises"
    /\ outcome["t1"].result = Returned([status |-> "error", message |-> "Unknown action"])

---------------------------------------------------------------------------
(* Claims C21..C30 *)

\* C21: for each agent, a request with the supported action whose required
\* field (text, location or topic) is empty or absent makes the handler
\* return status "error" together with a message key, and the collaborator
\* (LLM, weather service, Wikipedia) is not invoked for that request.
C21_EmptyInputRejected ==
    \A c \in Answered :
        LET ex == c.exchange
            payload == c.request.payload
        IN  (/\ ex.server \in Agents
             /\ Get(payload, "action") = SupportedAction(ex.server)
             /\ (\/ RequiredField(ex.server) \notin DOMAIN payload
                 \/ payload[RequiredField(ex.server)] = "")) =>
                /\ ex.handled
                /\ ex.result.ok
                /\ ~ex.result.invoked
                /\ ex.result.value.status = "error"
                /\ "message" \in DOMAIN ex.result.value
                /\ ex.http.status = 200

C21_Witness ==
    /\ outcome["t1"].op = "send_request"
    /\ outcome["t1"].exchange # NoExchange
    /\ outcome["t1"].exchange.server = "crewai-weather"
    /\ outcome["t1"].request.payload = [action |-> "get_weather", location |-> ""]
    /\ ~outcome["t1"].exchange.result.invoked
    /\ outcome["t1"].result =
          Returned([status |-> "error", message |-> "No location provided"])

\* The payloads a client received from an agent for the supported action
\* with a non-empty input, each with the agent that sent it
ReceivedForSupported ==
    {<<o.exchange.server, o.result.value>> :
        o \in {outcome[t] : t \in {u \in Threads :
                  /\ outcome[u].op = "send_request"
                  /\ outcome[u].exchange # NoExchange
                  /\ outcome[u].result.ok
                  /\ outcome[u].exchange.server \in Agents
                  /\ Get(outcome[u].request.payload, "action")
                        = SupportedAction(outcome[u].exchange.server)
                  /\ ~Falsy(GetOr(outcome[u].request.payload,
                                  RequiredField(outcome[u].exchange.server), ""))}}}

\* The payload p of agent a carries the metadata
HasMetadata(a, p) ==
    /\ {"framework", "provider", "model"} \subseteq DOMAIN p
    /\ p["framework"] = FrameworkTag(a)

\* C22, as claimed: every payload the client receives for the supported
\* action and a non-empty input contains framework, provider and model, with
\* framework equal to the agent's tag, whatever the outcome of the lookup.
C22_Original == \A r \in ReceivedForSupported : HasMetadata(r[1], r[2])

\* C22, amended: every such payload with status "success" contains the three
\* keys with the agent's tag; the payloads of adk-wikipedia and
\* simple-extractor always have that status, while those of crewai-weather
\* after a failed lookup have status "error" and none of the three keys.
C22_SuccessMetadata ==
    \A r \in ReceivedForSupported :
        /\ r[2]["status"] = "success" => HasMetadata(r[1], r[2])
        /\ r[2]["status"] = "success" =>
                r[2]["provider"] = Provider(r[1]) /\ r[2]["model"] = ModelName(r[1])
        /\ r[1] \in {"adk-wikipedia", "simple-extractor"} => r[2]["status"] = "success"
        /\ r[2]["status"] # "success" =>
                /\ r[1] = "crewai-weather"
                /\ r[2]["status"] = "error"
                /\ DOMAIN r[2] \cap {"framework", "provider", "model"} = {}

C22_Witness ==
    /\ <<"crewai-weather",
         [status |-> "error", message |-> "Location 'Paris' not found",
          location |-> "Paris"]>> \in ReceivedForSupported

\* Where agent a takes its configuration from in environment env
SourceOf(a, env) ==
    CASE a = "langgraph-translator" -> IF env.file # "absent" THEN "yaml" ELSE "env"
      [] a \in {"crewai-weather", "adk-wikipedia"} -> "yaml"
      [] a = "simple-extractor" -> IF has_env_config(env) THEN "env" ELSE "yaml"

\* The deployment gives agent a no value for setting k
Missing(a, env, k) ==
    IF SourceOf(a, env) = "yaml"
    THEN ~(env.file = "listed" /\ k \in env.yaml_keys)
    ELSE Falsy(env.vars[EnvVarOf(k)])

\* A required setting is missing: provider, model, the API key variable or
\* its value, port, endpoint
MissingRequired(a, env) ==
    \/ \E k \in {"provider", "model", "api_key_env", "port", "endpoint"} :
          Missing(a, env, k)
    \/ ~env.api_key

\* C23, as claimed: for every agent, if a required setting is missing at
\* startup, construction of the agent fails and the A2A server is never
\* created; no agent is serving with an unusable configuration.
C23_Original ==
    boot.phase \in {"constructed", "serving"} => ~MissingRequired(boot.agent, boot.env)

\* What holds instead: crewai-weather, adk-wikipedia and simple-extractor
\* fail fast; langgraph-translator, started without a YAML file, fails only
\* on a TEMPERATURE that is unset or no number, a PORT that is set and no
\* integer, or an unset API_KEY_ENV, and never tests the key's value itself.
C23_FailFastExceptTranslator ==
    /\ (boot.phase \in {"constructed", "serving"} /\ boot.agent # "langgraph-translator")
            => ~MissingRequired(boot.agent, boot.env)
    /\ (/\ boot.phase \in {"constructed", "serving"}
        /\ boot.agent = "langgraph-translator"
        /\ MissingRequired(boot.agent, boot.env)) =>
            \/ /\ boot.env.file = "absent"
               /\ IsFloat(boot.env.vars["TEMPERATURE"])
               /\ boot.env.vars["PORT"] = None \/ IsInt(boot.env.vars["PORT"])
               /\ boot.env.vars["API_KEY_ENV"] # None
            \/ /\ boot.env.file = "listed"
               /\ boot.env.yaml_keys = Settings
               /\ ~boot.env.api_key
               /\ boot.lib = "accepts"
    /\ (boot.phase = "failed" /\ boot.agent # "langgraph-translator") =>
            \/ MissingRequired(boot.agent, boot.env)
            \/ Missing(boot.agent, boot.env, "temperature")
            \/ boot.agent = "crewai-weather" /\ ~boot.env.weather_key
            \/ boot.agent = "simple-extractor"

\* The translator serving without an endpoint to advertise
C23_TranslatorServesUnconfigured ==
    /\ boot.phase = "serving"
    /\ boot.agent = "langgraph-translator"
    /\ boot.env.vars["ENDPOINT"] = None
    /\ boot.instance.endpoint = None
    /\ boot.env.api_key
    /\ info("langgraph-translator").body["endpoint"] = None

\* C24, as claimed: send_request returns a payload only if the body is an
\* envelope of kind response or error whose reply_to is the message_id that
\* this send_request generated.
C24_Original ==
    \A t \in Threads :
        LET o == outcome[t]
        IN  (o.op = "send_request" /\ o.result.ok) =>
                /\ o.response # NoResponse
                /\ Decodes(o.response.body)
                /\ o.response.body["message_type"] \in {"response", "error"}
                /\ o.response.body["reply_to"] = o.request.message_id

\* C24, amended: send_request returns a payload exactly when the answer's
\* status is not 4xx or 5xx and its body decodes into an envelope, of any
\* kind and with any reply_to; the payload returned is that envelope's.
C24_AnyEnvelope ==
    \A t \in Threads :
        LET o == outcome[t]
        IN  (o.op = "send_request" /\ o.response # NoResponse) =>
                /\ o.result.ok <=>
                      (o.response.status \notin 400..599 /\ Decodes(o.response.body))
                /\ o.result.ok => o.result.value = o.response.body["payload"]

C24_Witness ==
    /\ outcome["t1"].op = "send_request"
    /\ outcome["t1"].response = [status |-> 200,
                                 body |-> ForeignEnvelope("request", None)]
    /\ outcome["t1"].result = Returned([error |-> "denied"])
    /\ outcome["t1"].request.message_id # None


\* C25: a POST /message whose body decodes calls the handler exactly once,
\* with the envelope decoded from that body, and one whose body does not
\* decode calls it not at all; processing the POST leaves the server's
\* descriptor, what listens at the endpoint and the client's cache as they
\* were.
C25_HandlerOncePerDecodable ==
    [][lastExchange' # lastExchange =>
          LET ex == lastExchange'
          IN  /\ Decodes(ex.data) =>
                    /\ Len(ex.invoked) = 1
                    /\ ex.invoked[1] = from_dict(ex.data, clock).value
                    /\ \A k \in {"message_id", "from_agent", "to_agent", "payload"} :
                          ex.invoked[1][k] = ex.data[k]
              /\ ~Decodes(ex.data) => ex.invoked = <<>>
              /\ selfAgentInfo' = selfAgentInfo
              /\ listener' = listener
              /\ cache' = cache]_vars

C25_Witness ==
    /\ lastExchange.server # None
    /\ Decodes(lastExchange.data)
    /\ ~lastExchange.result.ok
    /\ Len(lastExchange.invoked) = 1
    /\ priorStreak >= 1
    /\ lastExchange.invoked[1].payload = [action |-> "fail"]


\* C26: a decodable envelope reaches the handler whatever its to_agent and
\* whatever its kind, and the envelope emitted in answer names the server's
\* own agent_id as from_agent, not the to_agent of the request.
C26_AddressingAdvisory ==
    LET ex == lastExchange
    IN  (ex.server # None /\ Decodes(ex.data)) =>
            /\ ex.handled
            /\ ex.invoked = <<ex.decoded.value>>
            /\ ex.invoked[1].to_agent = ex.data["to_agent"]
            /\ ex.invoked[1].message_type = MessageTypeOf(ex.data["message_type"])
            /\ ex.emitted.from_agent = selfAgentInfo[ex.server].agent_id
            /\ Carried(ex.http)["from_agent"] = selfAgentInfo[ex.server].agent_id

C26_Witness ==
    /\ lastExchange.server # None
    /\ Decodes(lastExchange.data)
    /\ lastExchange.data["to_agent"] = "other"
    /\ lastExchange.data["to_agent"] # selfAgentInfo[lastExchange.server].agent_id
    /\ lastExchange.data["message_type"] = "error"
    /\ lastExchange.handled
    /\ lastExchange.http.status = 200
    /\ lastExchange.http.body["from_agent"] = selfAgentInfo[lastExchange.server].agent_id


\* The network call of a get_agent_info came back without a descriptor: no
\* answer at all, an answer whose status is among the statuses given, or a
\* body that AgentInfo(**body) rejects
InfoFailed(o, statuses) ==
    /\ o.op = "get_agent_info"
    /\ o.netCalls > 0
    /\ \/ o.response = NoResponse
       \/ o.response.status \in statuses
       \/ ~AgentInfo_from_json(o.response.body).ok

\* C27, as claimed: a get_agent_info whose GET failed, any status outside
\* 200..299 included, raises and leaves no cache entry for the endpoint.
C27_Original ==
    InfoFailed(outcome["t1"], 100..599 \ 200..299) =>
        /\ ~outcome["t1"].result.ok
        /\ outcome["t1"].endpoint \notin DOMAIN cache

\* C27, amended: a get_agent_info whose GET raised in the transport, was
\* answered with a 4xx or 5xx status or with a body that builds no
\* descriptor raises; the step that fails leaves the cache as it was, with
\* no entry for the endpoint, and the next get_agent_info for that endpoint
\* goes to the network again.
C27_FailedLookupNotCached ==
    /\ [](InfoFailed(outcome["t1"], 400..599) =>
            /\ ~outcome["t1"].result.ok
            /\ outcome["t1"].endpoint \notin DOMAIN cache
            /\ ~ENABLED GetAgentInfoCached("t1", outcome["t1"].endpoint)
            /\ (pc["t1"] = "idle" /\ calls < MaxCalls) =>
                  ENABLED GetAgentInfoFetch("t1", outcome["t1"].endpoint))
    /\ [][(pc["t1"] = "InfoSent" /\ pc'["t1"] = "idle"
           /\ InfoFailed(outcome'["t1"], 400..599)) => cache' = cache]_vars

C27_Witness ==
    /\ outcome["t1"].op = "get_agent_info"
    /\ outcome["t1"].endpoint = "http://b"
    /\ outcome["t1"].response = [status |-> 200,
                                 body |-> Without(ForeignInfo, {"framework"})]
    /\ ~outcome["t1"].result.ok
    /\ cache = <<>>
    /\ pc["t1"] = "InfoSent"
    /\ call["t1"].endpoint = "http://b"
    /\ call["t1"].netCalls = 1


\* The payloads received from simple-extractor for an extract request with
\* a non-empty text
Extracted ==
    {r[2] : r \in {x \in ReceivedForSupported : x[1] = "simple-extractor"}}

\* C28, as claimed: every such payload has status "success" and an
\* extracted_data with the five keys, people and locations being lists,
\* whatever the model answered; a failure shows only as an error key.
C28_Original ==
    \A p \in Extracted :
        /\ p["status"] = "success"
        /\ ExtractedKeys \subseteq DOMAIN p["extracted_data"]
        /\ p["extracted_data"]["people"].type = "list"
        /\ p["extracted_data"]["locations"].type = "list"

\* What holds of the shape: status "success" and the five keys, always, the
\* five being empty lists when the error key is there
C28_FiveKeys ==
    \A p \in Extracted :
        /\ p["status"] = "success"
        /\ ExtractedKeys \subseteq DOMAIN p["extracted_data"]
        /\ "error" \in DOMAIN p["extracted_data"] =>
              \A k \in ExtractedKeys : p["extracted_data"][k] = JsonList(<<>>)

\* The model answered with people as a string and locations as null
C28_OffSchemaReceived ==
    \E p \in Extracted :
        /\ p["extracted_data"]["people"] = JsonStr("John Smith")
        /\ p["extracted_data"]["locations"] = JsonNull
        /\ "summary" \in DOMAIN p["extracted_data"]


\* C29, as claimed: wait_for_all_agents returns True only if every endpoint
\* of ENDPOINTS answered a probe with 200, and never probes an endpoint more
\* than max_retries times.
C29_Original ==
    /\ (readiness.phase = "returned" /\ readiness.result) =>
            readiness.healthy = EndpointNames
    /\ \A e \in EndpointNames : readiness.probes[e] <= readiness.max_retries

\* What holds of the loop: it probes an endpoint at most max_retries times,
\* it returns True when every endpoint answered 200, and it returns False
\* only when the last probe allowed for an endpoint raised
C29_BoundedProbes ==
    /\ \A e \in EndpointNames : readiness.probes[e] <= readiness.max_retries
    /\ (readiness.phase = "returned" /\ readiness.healthy = EndpointNames) =>
            readiness.result
    /\ (readiness.phase = "returned" /\ ~readiness.result) =>
            /\ readiness.probes[ENDPOINTS[readiness.at]] = readiness.max_retries
            /\ ENDPOINTS[readiness.at] \notin readiness.healthy

\* The loop returned True although no endpoint ever answered 200
C29_TrueWithoutHealth ==
    /\ readiness.phase = "returned"
    /\ readiness.result
    /\ readiness.healthy = {}
    /\ \A e \in EndpointNames : readiness.probes[e] = MaxRetries


\* The configuration cfg holds the six settings as the environment env gives
\* them, temperature as a float and port as an int
FromEnvironment(cfg, env) ==
    /\ DOMAIN cfg = Settings
    /\ \A k \in Settings :
          cfg[k] = IF k \in {"temperature"} THEN env.vars["TEMPERATURE"] \o "f"
                   ELSE IF k = "port" THEN env.vars["PORT"] \o "i"
                   ELSE env.vars[EnvVarOf(k)]

\* C30, as claimed: load_agent_config returns the configuration of the
\* environment exactly when all six variables are set; otherwise it returns
\* the YAML entry, or raises ValueError when there is no agent name, no file
\* or no entry; what it returns always has all six settings.
C30_Original ==
    boot.phase = "loaded" =>
        LET env == boot.env
            result == boot.result
            named == boot.agent_name # None \/ env.AGENT_NAME
        IN  /\ has_env_config(env) <=> (result.ok /\ FromEnvironment(result.value, env))
            /\ ~has_env_config(env) =>
                  IF ~named \/ env.file \in {"absent", "unlisted"}
                  THEN ~result.ok /\ result.exc = "ValueError"
                  ELSE result = Returned(YamlEntry(env.yaml_keys))
            /\ result.ok => DOMAIN result.value = Settings

\* C30, amended: without an agent name load_agent_config raises ValueError;
\* with one and all six variables set it returns the configuration of the
\* environment, or raises ValueError when TEMPERATURE or PORT is not a
\* number; with one and any of the six unset it reads nothing from the
\* environment and returns the agent's YAML entry as the file has it,
\* complete or not, or raises ValueError when the file or the entry is
\* missing.
C30_SourcePrecedence ==
    boot.phase = "loaded" =>
        LET env == boot.env
            result == boot.result
            named == boot.agent_name # None \/ env.AGENT_NAME
        IN  /\ ~named => (~result.ok /\ result.exc = "ValueError")
            /\ (named /\ has_env_config(env)) =>
                  IF IsFloat(env.vars["TEMPERATURE"]) /\ IsInt(env.vars["PORT"])
                  THEN result.ok /\ FromEnvironment(result.value, env)
                  ELSE ~result.ok /\ result.exc = "ValueError"
            /\ (named /\ ~has_env_config(env)) =>
                  IF env.file \in {"absent", "unlisted"}
                  THEN ~result.ok /\ result.exc = "ValueError"
                  ELSE result = Returned(YamlEntry(env.yaml_keys))

C30_Witness ==
    /\ boot.phase = "loaded"
    /\ boot.agent_name = None
    /\ boot.env.AGENT_NAME
    /\ boot.env.vars = [GoodVars EXCEPT !["ENDPOINT"] = None]
    /\ boot.env.file = "listed"
    /\ boot.env.yaml_keys = Settings \ {"port"}
    /\ boot.result = Returned(YamlEntry(Settings \ {"port"}))
    /\ boot.result.value["temperature"] = "0.2f"

=============================================================================
